---- MODULE Spec2Model ----
(***************************************************************************)
(* Model of the NVTabular preprocessing core:                              *)
(*   - Shuffler (nv_tabular/ds_iterator.py): one producer thread calling   *)
(*     add_data / close_writers, one writer thread per output shard.       *)
(*   - Workflow scheduler (nv_tabular/preproc.py): load_config compiling   *)
(*     the operator configuration into phases.                             *)
(*   - GPUDatasetIterator / GPUFileIterator and the file readers           *)
(*     (nv_tabular/ds_iterator.py): chunked reading of a list of sources.  *)
(*   - the statistics operators MinMax, Moments, Median, Encoder           *)
(*     (nv_tabular/ops.py): apply_op per chunk, read_fin at the end.       *)
(***************************************************************************)
EXTENDS Integers, Naturals, Sequences, FiniteSets, TLC

(* ---------------------------------------------------------------------- *)
(* Bounds of the model                                                     *)
(* ---------------------------------------------------------------------- *)
MaxShards == 2
MaxRows == 3
MaxPieces == 4
MaxOps == 3
MaxPaths == 2
MaxFileRows == 3
MaxFreeMem == 8
MaxIter == 2
MaxChunks == 3
MaxChunkLen == 2
MaxVal == 2
MaxApply == 2
MaxTasks == 3
MaxExecOps == 2
MaxExecChunks == 2
MaxPqRows == 4
MaxCalls == 4
MaxItems == 3
WideShards == 4
WideRows == 9

None == "None"
NoPiece == [c |-> 0, lo |-> 0, hi |-> 0]

VARIABLES
    num_out_files,      \* the num_out_files argument of this run's add_data calls
    row_counts,         \* the row counts the chunk stream of this run can deliver
    cont_saving,        \* Shuffler.cont_saving
    buckets_is_none,    \* Shuffler.buckets is None (before the first add_data)
    buckets,            \* Shuffler.buckets: shard index -> list of pieces (<<>> while None)
    locks_bucket,       \* Shuffler.locks_bucket: shard index -> holder of the lock
                        \* (0: free, -1: the producer, t > 0: writer thread t)
    file_create_started,\* Shuffler.file_create_started
    b_idxs,             \* Shuffler.b_idxs: the slice -> shard permutation (<<>> while None)
    writers,            \* Shuffler.writers: the opened ParquetWriter objects (by shard)
    writer_files,       \* Shuffler.writer_files
    writers_thread_set, \* the attribute Shuffler.writers_thread exists (set by start_writers)
    writers_thread,     \* Shuffler.writers_thread: the thread ids
    threads,            \* every thread ever started: [idx, pc, file_created, dt]
    files,              \* the output directory: shard index -> [openers, tables, writtenby, closed]
    prod_pc,            \* position of the producer thread
    gdf_rows,           \* add_data: gdf.shape[0] of the chunk being added
    slice_size,         \* add_data: slice_size
    x,                  \* add_data: loop index x
    chunks,             \* history: row counts of the chunks handed to add_data
    enq,                \* history: shard index -> pieces ever appended to its bucket
    raised              \* the exception the last producer call raised, or None

shvars == << num_out_files, row_counts, cont_saving, buckets_is_none, buckets, locks_bucket,
             file_create_started, b_idxs, writers, writer_files, writers_thread_set, writers_thread,
             threads, files, prod_pc, gdf_rows, slice_size, x, chunks, enq, raised >>

VARIABLES
    wf_pc,              \* "config" until load_config (finalize) ran, then "loaded";
                        \* "applied" once apply ran its passes, "restored" after load_stats
    n_declared,         \* number of operators handed to add_feature / add_preprocess so far
    config,             \* Workflow.config: phase-name -> column-group -> list of chains
    master_task_list,   \* Workflow.master_task_list
    task_sets,          \* Workflow.task_sets: phase-name -> tasks built for it
    phases,             \* Workflow.phases: list of lists of tasks
    feat_ops,           \* keys of Workflow.feat_ops
    stat_ops,           \* keys of Workflow.stat_ops
    df_ops,             \* keys of Workflow.df_ops
    final_ctx,          \* Workflow.columns_ctx["final"]["ctx"] (<<>> until created)
    warned,             \* config_add_ops issued its "No main key ... found" warning
    dropped,            \* history: a declaration for an undeclared column-group returned
                        \* without raising
    wf_raised,          \* the exception the last Workflow call raised, or None
    saved_set,          \* save_stats wrote the document
    saved_tasks,        \* the "tasks" list of the document save_stats wrote
    declared,           \* history: the add_feature / add_preprocess calls, in order
    wf2_loaded,         \* a second, fresh Workflow was given the same calls and finalized
    wf2_phases          \* Workflow.phases of that second object

wfvars == << wf_pc, n_declared, config, master_task_list, task_sets, phases,
             feat_ops, stat_ops, df_ops, final_ctx, warned, dropped, wf_raised,
             saved_set, saved_tasks, declared, wf2_loaded, wf2_phases >>

VARIABLES
    paths,              \* GPUDatasetIterator.paths: the sources, in declared order
    kw_batch_size,      \* the batch_size keyword handed to every file reader (0: None)
    itr_is_none,        \* GPUDatasetIterator.itr is None
    itr,                \* GPUDatasetIterator.itr: the GPUFileIterator of the current source
    next_path_ind,      \* GPUDatasetIterator.next_path_ind
    it_raised,          \* what the last __next__ call raised, or None
    failed_path,        \* index of the source whose reader construction raised last (0: none)
    yielded,            \* history: [path, rows] of the chunks returned since the last (re)start
    first_run,          \* history: the chunks of the first iteration that ran to completion
    first_done,         \* history: some iteration ran to completion
    n_iter              \* history: number of __iter__ calls

itvars == << paths, kw_batch_size, itr_is_none, itr, next_path_ind, it_raised, failed_path,
             yielded, first_run, first_done, n_iter >>

VARIABLES
    acc,                \* the StatOperator class the calls of this run go to
    minmax,             \* the MinMax object: [batch_mins, batch_maxs, mins, maxs]
    moments,            \* the Moments object: [counts, means, varis, stds]
    median,             \* the Median object: [batch_medians, medians]
    encoder,            \* the Encoder object: [encoders, categories]
    runs,               \* Moments objects fed the same rows in different chunkings:
                        \* name -> [todo, st]
    last_call,          \* the method called last on the accumulator, or None
    fin_streak,         \* history: number of read_fin calls since the last apply_op
    n_chunks,           \* history: number of apply_op calls
    recorded,           \* history: the per-chunk values MinMax and Median recorded, in call order
    stat_raised,        \* the exception the last call raised, or None
    fill,               \* Median.fill: << >> for None, else << value >>
    ingested,           \* history: the chunk handed to the last apply_op call
    rows_in             \* history: the rows of all chunks handed to apply_op so far

acvars == << acc, minmax, moments, median, encoder, runs, last_call, fin_streak,
             n_chunks, recorded, stat_raised, fill, ingested, rows_in >>

VARIABLES
    gdf,                \* the chunk the pass carries: [cols, rows]
    columns_ctx,        \* Workflow.columns_ctx["continuous"]: key -> column list
    wf_stats,           \* Workflow.stats: [stds, medians], each a dictionary column -> value
    ap_last,            \* the operator whose apply_op was called last, or None
    ap_raised,          \* the exception that call raised, or None
    gdf_before,         \* history: the chunk handed to the last apply_op
    ctx_before,         \* history: the column context handed to the last apply_op
    n_apply             \* history: number of apply_op calls

apvars == << gdf, columns_ctx, wf_stats, ap_last, ap_raised, gdf_before, ctx_before, n_apply >>

VARIABLES
    pc_phases,          \* Workflow.phases while phase_creator runs
    pc_todo,            \* the tasks of task_list phase_creator has not reached yet
    pc_hist,            \* history: per task processed, [task, before, after, idx, appended]
    pc_raised           \* the exception phase_creator raised for the last task, or None

pcvars == << pc_phases, pc_todo, pc_hist, pc_raised >>

VARIABLES
    ex_phases,          \* Workflow.phases of the workflow the passes run on
    ex_stat_ops,        \* Workflow.stat_ops: the registered statistic operators, by _id
    ex_n,               \* number of chunks the dataset iterator yields per pass
    ex_truth,           \* how the frame class answers "not new_gdf"
    ex_pass,            \* update_stats: 1 + phase_index of the exec_phase call in progress
    ex_next,            \* exec_phase: the chunk "for gdf in itr" delivers next
    ex_ctx,             \* columns_ctx: the << group, operator >> keys written so far
    ex_acc,             \* per stat operator object, the ingestions it made:
                        \* [pass, chunk, key], key the columns_ctx entry it read
    ex_stats,           \* Workflow.stats, per stat operator the value get_stats stored
    ex_aliased,         \* Workflow.stats holds the operators' own dictionaries
    ex_pub,             \* history: Workflow.stats at the end of each finished pass
    ex_trace,           \* history: the tasks the last chunk went through, in order
    ex_raised,          \* the exception that ended the pass, or None
    ex_shuffle,         \* apply(shuffle=...): a Shuffler was created for this apply
    ex_handed,          \* history: the add_data calls, [pass, chunk, trace]
    ex_closed,          \* apply called shuffler.close_writers()
    ex_pre,             \* the preprocessing argument the declared operators were built with
    ex_cols,            \* columns_ctx: << group, sub-key >> -> list of column names
    ex_final,           \* columns_ctx["final"]["ctx"]: group -> list
    ex_alias            \* the groups whose final list is the group's "base" list object

exvars == << ex_phases, ex_stat_ops, ex_n, ex_truth, ex_pass, ex_next, ex_ctx, ex_acc,
             ex_stats, ex_aliased, ex_pub, ex_trace, ex_raised, ex_shuffle, ex_handed,
             ex_closed, ex_pre, ex_cols, ex_final, ex_alias >>

VARIABLES
    rd_reader,          \* the PQFileReader after intialize_reader
    rd_nskip,           \* GPUFileIterator.rows_processed: the nskip of the next read
    rd_bounds           \* history: the row offset at which each chunk read so far ends

rdvars == << rd_reader, rd_nskip, rd_bounds >>

VARIABLES
    sc_kind,            \* the accumulator class of the instances, or None
    sc_class,           \* the dictionaries held as attributes of the class
    sc_own,             \* instance -> its dictionaries are attributes of the instance
    sc_inst,            \* instance -> the dictionaries held as its own attributes
    sc_made,            \* the instances constructed so far
    sc_n,               \* history: number of calls made
    sc_last             \* history: the last call, [op, inst]

scvars == << sc_kind, sc_class, sc_own, sc_inst, sc_made, sc_n, sc_last >>

VARIABLES
    export              \* Workflow.export: the export keyword of the constructor

xpvars == << export >>

VARIABLES
    pw_queue,           \* ParquetWriter.queue: the items put and not yet taken
    pw_pc,              \* writer thread -> its position in _write_thread
    pw_item,            \* writer thread -> the item it took last
    pw_locks,           \* ParquetWriter.write_locks: shard -> holding thread (0: free)
    pw_taken,           \* history: the items taken from the queue
    pw_done,            \* history: item -> number of task_done calls made for it
    pw_written          \* history: the _write_table calls, [id, idx, by, holder]

pwvars == << pw_queue, pw_pc, pw_item, pw_locks, pw_taken, pw_done, pw_written >>

vars == << shvars, wfvars, itvars, acvars, apvars, pcvars, exvars, rdvars, scvars, xpvars, pwvars >>

(* ---------------------------------------------------------------------- *)
(* Helpers                                                                 *)
(* ---------------------------------------------------------------------- *)
Shards == 0 .. (num_out_files - 1)

Min(a, b) == IF a <= b THEN a ELSE b

\* rows of a piece: to_write = gdf.iloc[cp.arange(start, end)]
PieceRows(p) == IF p.hi > p.lo THEN p.hi - p.lo ELSE 0

PieceSet(p) == { <<p.c, r>> : r \in p.lo .. (p.hi - 1) }

RECURSIVE SumRows(_)
SumRows(s) == IF s = <<>> THEN 0 ELSE PieceRows(Head(s)) + SumRows(Tail(s))

RECURSIVE SumSeq(_)
SumSeq(s) == IF s = <<>> THEN 0 ELSE Head(s) + SumSeq(Tail(s))

RECURSIVE SumOver(_, _)
SumOver(f, S) == IF S = {} THEN 0
                 ELSE LET i == CHOOSE j \in S : TRUE
                      IN  SumRows(f[i]) + SumOver(f, S \ {i})

\* variant: the slice -> shard mapping is drawn with repetition
ShardPerms_Any(N) == [0 .. (N - 1) -> 0 .. (N - 1)]

\* np.random.shuffle(self.b_idxs): any permutation of 0..N-1
ShardPerms(N) == { f \in [0 .. (N - 1) -> 0 .. (N - 1)] :
                       \A a, b \in 0 .. (N - 1) : a # b => f[a] # f[b] }

\* int_slice_size = gdf.shape[0] // num_out_files
IntSliceSize(R, N) == R \div N

\* slice_size = int_slice_size if gdf.shape[0] % int_slice_size == 0 else int_slice_size + 1
\* (only evaluated when int_slice_size # 0; otherwise the modulo raises)
SliceSize(R, N) == IF R % IntSliceSize(R, N) = 0 THEN IntSliceSize(R, N)
                   ELSE IntSliceSize(R, N) + 1

\* start = x * slice_size; end = start + slice_size, capped at gdf.shape[0]
SliceOf(c, R, sz, k) == [c |-> c, lo |-> k * sz, hi |-> Min(k * sz + sz, R)]

\* variant: the writers are started by every add_data
NeedStartWriters_Always(started) == TRUE

\* if not self.file_create_started
NeedStartWriters(started) == ~started

\* variant: the file is opened on the first poll, whatever the bucket holds
CanOpen_Always(b) == TRUE

\* if len(self.buckets[idx]) > 0  (before the file is created)
CanOpen(b) == Len(b) > 0

\* dt = self.buckets[idx].pop()
PopIndex(b) == Len(b)

\* elif not self.cont_saving: break
MayExit(flag) == ~flag

NewThread(i) == [idx |-> i, pc |-> "poll", file_created |-> FALSE, dt |-> NoPiece]

NewFile == [openers |-> <<>>, tables |-> <<>>, writtenby |-> {}, closed |-> FALSE]

(* ---------------------------------------------------------------------- *)
(* Operators (nv_tabular/ops.py)                                           *)
(* ---------------------------------------------------------------------- *)
CONT == "continuous"
CAT == "categorical"
ALL == "all"

StatIds == {"MinMax", "Moments", "Median", "Encoder"}
FeatIds == {"Export", "ZeroFill", "LogOp"}
DfIds == {"Normalize", "FillMissing", "Categorify"}

\* the operators the model hands to add_feature / add_preprocess
DeclOps == {"LogOp", "Normalize", "FillMissing", "Categorify"}

\* a TransformOperator subclass of the caller whose default_in is the label group
\* (a group of Workflow.columns_ctx that get_new_list_config does not declare)
UserOps == {"LabelOp"}

\* default_in of each transform operator class
DefaultIn(op) == IF op = "Categorify" THEN CAT
                 ELSE IF op = "Export" THEN ALL
                 ELSE IF op = "LabelOp" THEN "label"
                 ELSE CONT

\* the req_stats property: Normalize -> [Moments()], FillMissing -> [Median()],
\* Categorify -> [Encoder()]; the other classes have no such attribute
HasReqStats(op) == op \in DfIds

ReqStats(op) == IF op = "Normalize" THEN << "Moments" >>
                ELSE IF op = "FillMissing" THEN << "Median" >>
                ELSE IF op = "Categorify" THEN << "Encoder" >>
                ELSE << >>

\* the preprocessing attribute of a constructed operator (Export passes False)
Preprocessing(op) == op # "Export"

\* `a._id in b._id` on strings is a substring test; no registered identifier is a
\* substring of another one, so it is identity on them
IdIn(a, b) == a = b

(* ---------------------------------------------------------------------- *)
(* Sequence helpers (python list semantics)                                *)
(* ---------------------------------------------------------------------- *)
InSeq(e, s) == \E k \in 1 .. Len(s) : s[k] = e

RemoveAt(s, i) == [k \in 1 .. (Len(s) - 1) |-> IF k < i THEN s[k] ELSE s[k + 1]]

\* list.remove(e): removes the first occurrence
RemoveFirst(s, e) ==
    IF InSeq(e, s)
      THEN RemoveAt(s, CHOOSE k \in 1 .. Len(s) : s[k] = e /\ \A j \in 1 .. (k - 1) : s[j] # e)
      ELSE s

GroupOrder == << ALL, CONT, CAT >>

\* get_new_list_config
NewListConfig == [pn \in {"FE", "PP"} |-> [g \in {ALL, CONT, CAT} |-> << >>]]

Task(op, cols, deps, parents) == [op |-> op, cols |-> cols, deps |-> deps, parents |-> parents]

(* ---------------------------------------------------------------------- *)
(* Workflow.add_feature / add_preprocess / config_add_ops                  *)
(* ---------------------------------------------------------------------- *)
\* get_tar_cols: default_in of the first operator of the chain
GetTarCols(operators) == DefaultIn(operators[1])

\* config_add_ops: append the chain under config[phase][target_cols]
ConfigAddOps(cfg, operators, phase) ==
    LET target_cols == GetTarCols(operators)
    IN  IF phase \in DOMAIN cfg /\ target_cols \in DOMAIN cfg[phase]
          THEN [cfg EXCEPT ![phase][target_cols] = Append(@, operators)]
          ELSE cfg

\* add_preprocess: prepend the last FE operator of the target column-group
PreprocessChain(cfg, operators) ==
    LET fe == cfg["FE"][GetTarCols(operators)]
    IN  IF fe # << >>
          THEN << fe[Len(fe)][Len(fe[Len(fe)])] >> \o operators
          ELSE operators

(* ---------------------------------------------------------------------- *)
(* Workflow.load_config and its helpers                                    *)
(* ---------------------------------------------------------------------- *)
\* extract_tasks_dict: one {op_id: [[dependency]]} entry per operator of each chain
RECURSIVE ExtractTasksDict(_)
ExtractTasksDict(task_list) ==
    IF task_list = << >> THEN << >>
    ELSE LET obj == Head(task_list)
         IN  [idx \in 1 .. Len(obj) |->
                 [op_id |-> obj[idx],
                  dep_grp |-> IF idx > 1 THEN << obj[idx - 1] >> ELSE << >>]]
             \o ExtractTasksDict(Tail(task_list))

\* compile_dict_from_list
CompileDictFromList(cfg) ==
    [pn \in DOMAIN cfg |-> [g \in DOMAIN cfg[pn] |-> ExtractTasksDict(cfg[pn][g])]]

\* find_op + op_preprocess, reading the registries as they are at call time
OpPreprocess(dep, fops, sops, dops) ==
    IF dep \in sops THEN TRUE
    ELSE IF dep \in fops \cup dops THEN Preprocessing(dep)
    ELSE TRUE

\* is_repeat_op: looks the pair up in self.master_task_list
IsRepeatOp(op, cols, master) ==
    \E k \in 1 .. Len(master) : IdIn(op, master[k].op) /\ cols = master[k].cols

RECURSIVE FilterDeps(_, _, _, _)
FilterDeps(dep_grp, fops, sops, dops) ==
    IF dep_grp = << >> THEN << >>
    ELSE IF OpPreprocess(Head(dep_grp), fops, sops, dops)
           THEN << Head(dep_grp) >> \o FilterDeps(Tail(dep_grp), fops, sops, dops)
           ELSE FilterDeps(Tail(dep_grp), fops, sops, dops)

OrBase(dep_grp) == IF dep_grp # << >> THEN dep_grp ELSE << "base" >>

\* variant: the required statistics are not injected
EntryTasks_OwnOnly(entry, cols, task_set, master, fops, sops, dops) ==
    LET dep_grp == IF task_set = "PP"
                     THEN FilterDeps(entry.dep_grp, fops, sops, dops)
                     ELSE entry.dep_grp
        parents == IF HasReqStats(entry.op_id) THEN ReqStats(entry.op_id) ELSE << >>
    IN  IF IsRepeatOp(entry.op_id, cols, master) THEN << >>
        ELSE << Task(entry.op_id, cols, OrBase(dep_grp), parents) >>

\* build_tasks, lines 507-531: the tasks one {op_id: dep_set} entry contributes
EntryTasks(entry, cols, task_set, master, fops, sops, dops) ==
    LET dep_grp == IF task_set = "PP"
                     THEN FilterDeps(entry.dep_grp, fops, sops, dops)
                     ELSE entry.dep_grp
        stats == IF HasReqStats(entry.op_id)
                   THEN LET rs == ReqStats(entry.op_id)
                        IN  IF IsRepeatOp(rs[1], cols, master) THEN << >>
                            ELSE << Task(rs[1], cols, OrBase(dep_grp), << >>) >>
                   ELSE << >>
        parents == IF HasReqStats(entry.op_id) THEN ReqStats(entry.op_id) ELSE << >>
        own == IF IsRepeatOp(entry.op_id, cols, master) THEN << >>
               ELSE << Task(entry.op_id, cols, OrBase(dep_grp), parents) >>
    IN  stats \o own

RECURSIVE GroupTasks(_, _, _, _, _, _, _)
GroupTasks(entries, cols, task_set, master, fops, sops, dops) ==
    IF entries = << >> THEN << >>
    ELSE EntryTasks(Head(entries), cols, task_set, master, fops, sops, dops)
         \o GroupTasks(Tail(entries), cols, task_set, master, fops, sops, dops)

\* build_tasks: dep_tasks over the column-groups in dictionary order; the master
\* task list it consults is the one of the caller, not extended while it runs
BuildTasks(task_dict, task_set, master, fops, sops, dops) ==
    GroupTasks(task_dict[GroupOrder[1]], GroupOrder[1], task_set, master, fops, sops, dops)
    \o GroupTasks(task_dict[GroupOrder[2]], GroupOrder[2], task_set, master, fops, sops, dops)
    \o GroupTasks(task_dict[GroupOrder[3]], GroupOrder[3], task_set, master, fops, sops, dops)

\* variant: the base tasks are collected but stay in the master list
SortTaskTypes_Keep(master_list, i, nodeps) ==
    [nodeps |-> SelectSeq(master_list,
                          LAMBDA t : InSeq("base", t.deps) /\ t.parents = << >>),
     leftovers |-> master_list]

\* sort_task_types: iterates master_list by index while removing from it, so the
\* element that follows a removed one is skipped
RECURSIVE SortTaskTypes(_, _, _)
SortTaskTypes(master_list, i, nodeps) ==
    IF i > Len(master_list) THEN [nodeps |-> nodeps, leftovers |-> master_list]
    ELSE LET tup == master_list[i]
         IN  IF InSeq("base", tup.deps) /\ tup.parents = << >>
               THEN SortTaskTypes(RemoveAt(master_list, i), i + 1, Append(nodeps, tup))
               ELSE SortTaskTypes(master_list, i + 1, nodeps)

\* variant: the parents may also sit in the phase under examination
FindParents_Inclusive(ops_list, phase_idx, phs) ==
    \A k \in 1 .. Len(ops_list) :
        \E j \in 1 .. phase_idx : \E m \in 1 .. Len(phs[j]) : IdIn(ops_list[k], phs[j][m].op)

\* find_parents(ops_list, phase_idx): every op of ops_list is found in
\* self.phases[:phase_idx]  (phase_idx counts from 1 here, so phases 1 .. phase_idx - 1)
FindParents(ops_list, phase_idx, phs) ==
    \A k \in 1 .. Len(ops_list) :
        \E j \in 1 .. (phase_idx - 1) : \E m \in 1 .. Len(phs[j]) : IdIn(ops_list[k], phs[j][m].op)

\* phase_creator, lines 328-332: strike the dependencies the tasks of one phase produce
RECURSIVE ScanPhase(_, _, _)
ScanPhase(phase, m, cols_needed) ==
    IF m > Len(phase) \/ cols_needed = << >> THEN cols_needed
    ELSE ScanPhase(phase, m + 1,
                   IF InSeq(phase[m].op, cols_needed)
                     THEN RemoveFirst(cols_needed, phase[m].op) ELSE cols_needed)

\* variant: the task is committed without looking at the dependencies left
ColsSatisfied_Any(cols_needed) == TRUE

\* if not cols_needed ...
ColsSatisfied(cols_needed) == cols_needed = << >>

\* variant: every task opens a new trailing phase
PlaceTask_Trailing(phs, task, idx, cols_needed) == Append(phs, << task >>)

\* phase_creator, lines 325-338: first phase that qualifies, else a new trailing phase
RECURSIVE PlaceTask(_, _, _, _)
PlaceTask(phs, task, idx, cols_needed) ==
    IF idx > Len(phs) THEN Append(phs, << task >>)
    ELSE LET left == ScanPhase(phs[idx], 1, cols_needed)
         IN  IF ColsSatisfied(left) /\ FindParents(task.parents, idx, phs)
               THEN [phs EXCEPT ![idx] = Append(@, task)]
               ELSE PlaceTask(phs, task, idx + 1, left)

RECURSIVE PhaseCreator(_, _)
PhaseCreator(phs, task_list) ==
    IF task_list = << >> THEN phs
    ELSE PhaseCreator(PlaceTask(phs, Head(task_list), 1,
                                RemoveFirst(Head(task_list).deps, "base")),
                      Tail(task_list))

\* reg_all_ops: the registry each task's operator is entered in
RegIds(task_list, kind) == { task_list[k].op : k \in 1 .. Len(task_list) } \cap kind

\* columns of the workflow (cont_names, cat_names, label_name)
BaseColumns(g) == IF g = CONT THEN << "x" >>
                  ELSE IF g = CAT THEN << "c" >>
                  ELSE IF g = "label" THEN << "y" >>
                  ELSE << "x", "c", "y" >>

\* create_final_col_refs, lines 447-449: iterates final[group] by index while removing
RECURSIVE DropDeps(_, _, _)
DropDeps(lst, i, deps) ==
    IF i > Len(lst) THEN lst
    ELSE IF InSeq(lst[i], deps) THEN DropDeps(RemoveAt(lst, i), i + 1, deps)
    ELSE DropDeps(lst, i + 1, deps)

RECURSIVE FinalRefs(_, _)
FinalRefs(pp_tasks, final) ==
    IF pp_tasks = << >> THEN final
    ELSE LET task == Head(pp_tasks)
             cur == IF task.cols \in DOMAIN final THEN final[task.cols] ELSE << >>
             kept == DropDeps(cur, 1, task.deps)
             new == IF task.op \in StatIds THEN kept ELSE Append(kept, task.op)
         IN  FinalRefs(Tail(pp_tasks),
                       [g \in (DOMAIN final) \cup {task.cols} |->
                           IF g = task.cols THEN new ELSE final[g]])

\* create_final_col_refs
CreateFinalColRefs(pp_tasks) ==
    LET final == FinalRefs(pp_tasks, << >>)
    IN  [g \in (DOMAIN final) \cup {"label", CONT, CAT} |->
            IF g = "label" THEN BaseColumns("label")
            ELSE IF g \in DOMAIN final THEN final[g]
            ELSE BaseColumns(g)]

\* variant: the task list is one list shared by every Workflow object
InitMasterTaskList_Shared(others) == others

\* Workflow.__init__: self.master_task_list = [], a list of this object alone
\* (others: the task list of the Workflow objects that exist already)
InitMasterTaskList(others) == << >>

\* Workflow.__init__ without a config
WorkflowInit ==
    /\ wf_pc = "config"
    /\ n_declared = 0
    /\ config = NewListConfig
    /\ master_task_list = InitMasterTaskList(<< >>)
    /\ task_sets = << >>
    /\ phases = << >>
    /\ feat_ops = {}
    /\ stat_ops = {}
    /\ df_ops = {}
    /\ final_ctx = << >>
    /\ warned = FALSE
    /\ dropped = FALSE
    /\ wf_raised = None
    /\ saved_set = FALSE
    /\ saved_tasks = << >>
    /\ declared = << >>
    /\ wf2_loaded = FALSE
    /\ wf2_phases = << >>

\* config_add_ops finds config[phase][target_cols]
Declared(cfg, operators, phase) ==
    phase \in DOMAIN cfg /\ GetTarCols(operators) \in DOMAIN cfg[phase]

Chains(n) == UNION { [1 .. k -> DeclOps] : k \in 1 .. n }

\* Workflow.add_feature(operators)
AddFeature(operators) ==
    /\ wf_pc = "config"
    /\ n_declared + Len(operators) <= MaxOps
    /\ n_declared' = n_declared + Len(operators)
    /\ config' = ConfigAddOps(config, operators, "FE")
    /\ warned' = (warned \/ ~Declared(config, operators, "FE"))
    /\ dropped' = (dropped \/ ~Declared(config, operators, "FE"))
    /\ wf_raised' = None
    /\ declared' = Append(declared, [api |-> "FE", operators |-> operators])
    /\ UNCHANGED << wf_pc, master_task_list, task_sets, phases, feat_ops, stat_ops,
                    df_ops, final_ctx, saved_set, saved_tasks, wf2_loaded, wf2_phases >>

\* Workflow.add_preprocess(operators)
AddPreprocess(operators) ==
    /\ wf_pc = "config"
    /\ n_declared + Len(operators) <= MaxOps
    /\ n_declared' = n_declared + Len(operators)
    /\ IF GetTarCols(operators) \in DOMAIN config["FE"]
         THEN /\ config' = ConfigAddOps(config, PreprocessChain(config, operators), "PP")
              /\ warned' = (warned \/ ~Declared(config, operators, "PP"))
              /\ dropped' = (dropped \/ ~Declared(config, operators, "PP"))
              /\ wf_raised' = None
         ELSE \* self.config["FE"][target_cols] raises
              /\ wf_raised' = "KeyError"
              /\ UNCHANGED << config, warned, dropped >>
    /\ declared' = Append(declared, [api |-> "PP", operators |-> operators])
    /\ UNCHANGED << wf_pc, master_task_list, task_sets, phases, feat_ops, stat_ops,
                    df_ops, final_ctx, saved_set, saved_tasks, wf2_loaded, wf2_phases >>

\* load_config(config) with export disabled, on a Workflow whose attributes are
\* master, phs and the three registries: the attributes it leaves
LoadConfigOf(cfg, master, phs, fops, sops, dops) ==
    LET tk == CompileDictFromList(cfg)
        fe == BuildTasks(tk["FE"], "FE", master, fops, sops, dops)
        m1 == master \o fe
        pp == BuildTasks(tk["PP"], "PP", m1, fops, sops, dops)
        m2 == m1 \o pp
        sorted == SortTaskTypes(m2, 1, << >>)
    IN  [task_sets |-> [pn \in {"FE", "PP"} |-> IF pn = "FE" THEN fe ELSE pp],
         feat_ops |-> fops \cup RegIds(m2, FeatIds),
         stat_ops |-> sops \cup RegIds(m2, StatIds)
                          \cup { ReqStats(o)[1] : o \in RegIds(m2, DfIds) },
         df_ops |-> dops \cup RegIds(m2, DfIds),
         master_task_list |-> sorted.leftovers,
         phases |-> PhaseCreator(Append(phs, sorted.nodeps), sorted.leftovers),
         final_ctx |-> CreateFinalColRefs(pp)]

\* Workflow.finalize() -> load_config(self.config)
\* isinstance(task[0], TransformOperator)
IsTransformOperator(op) == op \notin StatIds

\* the task phases_export appends: [Export(path=...), None, [], []]
ExportTask == Task("Export", None, << >>, << >>)

\* variant: the final phase is exported too
PhasesExport_Final(phs) ==
    [i \in 1 .. Len(phs) |->
        IF \E k \in 1 .. Len(phs[i]) : IsTransformOperator(phs[i][k].op)
          THEN Append(phs[i], ExportTask)
          ELSE phs[i]]

\* Workflow.phases_export: every phase of self.phases[:-1] that holds a transform
\* operator is given an Export task
PhasesExport(phs) ==
    [i \in 1 .. Len(phs) |->
        IF i < Len(phs) /\ \E k \in 1 .. Len(phs[i]) : IsTransformOperator(phs[i][k].op)
          THEN Append(phs[i], ExportTask)
          ELSE phs[i]]

\* Workflow(export=False)
ExportIdle == export = FALSE

\* load_config; phases_export runs on the phases phase_creator built when
\* self.export is set
LoadConfig ==
    /\ wf_pc = "config"
    /\ LET w == LoadConfigOf(config, master_task_list, phases, feat_ops, stat_ops, df_ops)
       IN  /\ task_sets' = w.task_sets
           /\ feat_ops' = w.feat_ops
           /\ stat_ops' = w.stat_ops
           /\ df_ops' = w.df_ops
           /\ master_task_list' = w.master_task_list
           /\ phases' = IF export THEN PhasesExport(w.phases) ELSE w.phases
           /\ final_ctx' = w.final_ctx
    /\ wf_pc' = "loaded"
    /\ wf_raised' = None
    /\ UNCHANGED << n_declared, config, warned, dropped, saved_set, saved_tasks,
                    declared, wf2_loaded, wf2_phases >>

\* the configuration of a fresh Workflow after one more add_feature / add_preprocess
DeclareOn(cfg, d) ==
    IF d.api = "FE" THEN ConfigAddOps(cfg, d.operators, "FE")
    ELSE IF GetTarCols(d.operators) \in DOMAIN cfg["FE"]
           THEN ConfigAddOps(cfg, PreprocessChain(cfg, d.operators), "PP")
           ELSE cfg

RECURSIVE DeclareAll(_, _)
DeclareAll(cfg, ds) ==
    IF ds = << >> THEN cfg ELSE DeclareAll(DeclareOn(cfg, Head(ds)), Tail(ds))

\* a second Workflow(): the same add_feature / add_preprocess calls in the same
\* order, then finalize()
LoadConfigAgain ==
    /\ wf_pc = "loaded"
    /\ ~wf2_loaded
    /\ wf2_loaded' = TRUE
    /\ wf2_phases' = LoadConfigOf(DeclareAll(NewListConfig, declared),
                                  InitMasterTaskList(master_task_list),
                                  << >>, {}, {}, {}).phases
    /\ UNCHANGED << wf_pc, n_declared, config, master_task_list, task_sets, phases,
                    feat_ops, stat_ops, df_ops, final_ctx, warned, dropped, wf_raised,
                    saved_set, saved_tasks, declared >>

\* Workflow.apply(dataset): the data passes over the phases
Apply ==
    /\ wf_pc = "loaded"
    /\ wf_pc' = "applied"
    /\ wf_raised' = None
    /\ UNCHANGED << n_declared, config, master_task_list, task_sets, phases, feat_ops,
                    stat_ops, df_ops, final_ctx, warned, dropped, saved_set, saved_tasks,
                    declared, wf2_loaded, wf2_phases >>

\* save_stats, the "tasks" entry: [op._id, group, dependencies, parent ids] per task of
\* self.master_task_list
SavedTasks(master) ==
    [k \in 1 .. Len(master) |->
        << master[k].op, master[k].cols, master[k].deps, master[k].parents >>]

\* recreate_master_task_list
RecreateMasterTaskList(task_list) ==
    [k \in 1 .. Len(task_list) |->
        Task(task_list[k][1], task_list[k][2], task_list[k][3], task_list[k][4])]

\* Workflow.save_stats(path)
SaveStats ==
    /\ wf_pc \in {"loaded", "applied"}
    /\ ~saved_set
    /\ saved_set' = TRUE
    /\ saved_tasks' = SavedTasks(master_task_list)
    /\ wf_raised' = None
    /\ UNCHANGED << wf_pc, n_declared, config, master_task_list, task_sets, phases,
                    feat_ops, stat_ops, df_ops, final_ctx, warned, dropped,
                    declared, wf2_loaded, wf2_phases >>

\* Workflow.load_stats(path)
LoadStats ==
    /\ saved_set
    /\ wf_pc \in {"loaded", "applied"}
    /\ wf_pc' = "restored"
    /\ LET m == RecreateMasterTaskList(saved_tasks)
       IN  /\ master_task_list' = m
           /\ feat_ops' = feat_ops \cup RegIds(m, FeatIds)
           /\ stat_ops' = stat_ops \cup RegIds(m, StatIds)
                              \cup { ReqStats(o)[1] : o \in RegIds(m, DfIds) }
           /\ df_ops' = df_ops \cup RegIds(m, DfIds)
    /\ wf_raised' = None
    /\ UNCHANGED << n_declared, config, task_sets, phases, final_ctx, warned, dropped,
                    saved_set, saved_tasks, declared, wf2_loaded, wf2_phases >>

(* ---------------------------------------------------------------------- *)
(* Workflow.phase_creator, one task of task_list at a time                 *)
(* ---------------------------------------------------------------------- *)
\* the tasks handed to phase_creator: load_config(config, pro=True) passes on the
\* dependencies the configuration names, whether or not their producer is declared
BaseTasks == { Task("LogOp", CONT, << "base" >>, << >>),
               Task("Moments", CONT, << "base" >>, << >>) }

DepTasks == { Task("LogOp", CONT, << "Normalize" >>, << >>),
              Task("Moments", CONT, << "LogOp" >>, << >>),
              Task("Normalize", CONT, << "base" >>, << "Moments" >>),
              Task("Normalize", CONT, << "LogOp" >>, << "Moments" >>) }

PhaseInit(baseline, task_list) ==
    /\ pc_phases = << baseline >>
    /\ pc_todo = task_list
    /\ pc_hist = << >>
    /\ pc_raised = None

PhaseIdle == PhaseInit(<< >>, << >>)

\* phase_creator, lines 319-338: the body of the loop over task_list
PhaseCreatorStep ==
    /\ pc_todo # << >>
    /\ LET task == Head(pc_todo)
           after == PlaceTask(pc_phases, task, 1, RemoveFirst(task.deps, "base"))
           idx == CHOOSE i \in 1 .. Len(after) :
                      i > Len(pc_phases) \/ after[i] # pc_phases[i]
       IN  /\ pc_phases' = after
           /\ pc_hist' = Append(pc_hist, [task |-> task, before |-> pc_phases,
                                          after |-> after, idx |-> idx,
                                          appended |-> Len(after) > Len(pc_phases)])
    /\ pc_todo' = Tail(pc_todo)
    /\ pc_raised' = None

(* ---------------------------------------------------------------------- *)
(* File readers and iterators (nv_tabular/ds_iterator.py)                  *)
(* ---------------------------------------------------------------------- *)
\* gpu_memory_frac = 0.5 (the default of GPUFileIterator), as a fraction
FracNum == 1
FracDen == 2

Max(a, b) == IF a >= b THEN a ELSE b

\* a column of a source: its dtype, dtype.itemsize, and len() of the greatest string
\* among its first rows (object columns)
IntCol == [dtype |-> "int8", itemsize |-> 1, max_len |-> 0]
StrCol == [dtype |-> "object", itemsize |-> 8, max_len |-> 1]

Sources == [engine : {"csv", "parquet"}, num_rows : 0 .. MaxFileRows,
            columns : { << IntCol >>, << StrCol >> }]

\* the free device memory numba reports when a reader asks for it
FreeMems == {2, MaxFreeMem}

\* one column's share of the row size: CSV object columns count len(max(col)) // 2,
\* every other column its dtype.itemsize
ColSize(engine, col) ==
    IF engine = "csv" /\ col.dtype = "object" THEN col.max_len \div 2 ELSE col.itemsize

RECURSIVE RowSizeOf(_, _)
RowSizeOf(engine, cols) ==
    IF cols = << >> THEN 0 ELSE ColSize(engine, Head(cols)) + RowSizeOf(engine, Tail(cols))

\* row_size as intialize_reader leaves it (GPUFileIterator always passes row_size=None):
\* estimated from the columns only when the source has rows
RowSize(src) == IF src.num_rows > 0 THEN RowSizeOf(src.engine, src.columns) ELSE 0

\* _allowable_batch_size: max(int(free_mem * gpu_memory_frac / row_size), 1)
\* (only evaluated when row_size # 0; otherwise the division raises)
AllowableBatchSize(free_mem, row_size) ==
    Max((free_mem * FracNum) \div (FracDen * row_size), 1)

\* intialize_reader raises ZeroDivisionError: no batch_size given and row_size = 0
ReaderRaises(src, kw) == kw = 0 /\ RowSize(src) = 0

\* intialize_reader: self.batch_size (use_row_groups only sets row_group_batch,
\* which read_file_batch does not use)
BatchSize(src, kw, free_mem) ==
    IF kw # 0 THEN kw
    ELSE Min(AllowableBatchSize(free_mem, RowSize(src)), src.num_rows)

\* PQFileReader.intialize_reader on a file of num_rows rows in num_row_groups row
\* groups; kw_batch is the batch_size keyword (0: None), kw_rg the use_row_groups
\* keyword ("None", "True" or "False")
PQInitializeReader(num_rows, num_row_groups, row_size, kw_batch, kw_rg, free_mem) ==
    LET gpu_memory_batch == AllowableBatchSize(free_mem, row_size)
        rg_size == num_rows \div num_row_groups
        derived == ~(kw_batch # 0 /\ kw_rg # "True")
        use_rg == IF ~derived THEN FALSE
                  ELSE IF kw_rg = "None" THEN rg_size <= gpu_memory_batch
                  ELSE kw_rg = "True"
    IN  [num_rows |-> num_rows, num_row_groups |-> num_row_groups, rg_size |-> rg_size,
         gpu_memory_batch |-> gpu_memory_batch, derived |-> derived,
         batch_size |-> IF derived THEN Min(gpu_memory_batch, num_rows) ELSE kw_batch,
         use_row_groups |-> use_rg,
         row_group_batch |-> IF use_rg THEN Max(gpu_memory_batch \div rg_size, 1) ELSE 1]

ReaderInit(r) ==
    /\ rd_reader = r
    /\ rd_nskip = 0
    /\ rd_bounds = << >>

ReaderIdle == ReaderInit(PQInitializeReader(1, 1, 1, 1, "False", 2))

\* GPUFileIterator._load_chunk on a PQFileReader: read_file_batch(nskip=rows_processed)
PQReadFileBatch ==
    /\ rd_nskip < rd_reader.num_rows
    /\ LET batch == Min(rd_reader.batch_size, rd_reader.num_rows - rd_nskip)
       IN  /\ rd_nskip' = rd_nskip + batch
           /\ rd_bounds' = Append(rd_bounds, rd_nskip + batch)
    /\ UNCHANGED rd_reader

\* GPUFileIterator.__init__ on source i of the list (file_path is its index; cur_chunk
\* is None between two calls and is left out; free_mem records the reading the reader
\* was given)
NewFileIterator(ps, i, kw, free_mem) ==
    [file_path |-> i, file_size |-> ps[i].num_rows,
     batch_size |-> BatchSize(ps[i], kw, free_mem),
     rows_processed |-> 0, count |-> 0, free_mem |-> free_mem]

NoIterator == [file_path |-> 0, file_size |-> 0, batch_size |-> 0, rows_processed |-> 0, count |-> 0,
               free_mem |-> 0]

\* variant: a full batch is read whatever is left of the source
ReadFileBatch_Full(it) == it.batch_size

\* GPUFileIterator.__len__
FileIteratorLen(it) ==
    it.file_size \div it.batch_size + (IF it.file_size % it.batch_size = 0 THEN 0 ELSE 1)

\* read_file_batch: batch = min(self.batch_size, self.num_rows - nskip)
ReadFileBatch(it) == Min(it.batch_size, it.file_size - it.rows_processed)

\* GPUFileIterator._load_chunk
LoadChunk(it) == [it EXCEPT !.count = @ + 1, !.rows_processed = @ + ReadFileBatch(it)]

\* GPUDatasetIterator.__next__, lines 338-346: return the next chunk of the current
\* file iterator, or open the next source; npi is next_path_ind
RECURSIVE NextLoop(_, _, _, _, _)
NextLoop(ps, kw, it, npi, free_mem) ==
    IF it.rows_processed < it.file_size
      THEN [kind |-> "chunk", itr |-> LoadChunk(it), npi |-> npi, rows |-> ReadFileBatch(it)]
    ELSE IF npi >= Len(ps)
      THEN [kind |-> "StopIteration", itr |-> it, npi |-> npi, rows |-> 0]
    ELSE IF ReaderRaises(ps[npi + 1], kw)
      THEN [kind |-> "ZeroDivisionError", itr |-> it, npi |-> npi + 1, rows |-> 0]
    ELSE NextLoop(ps, kw, NewFileIterator(ps, npi + 1, kw, free_mem), npi + 1, free_mem)

\* GPUDatasetIterator.__init__
IteratorInit(ps, kw) ==
    /\ paths = ps
    /\ kw_batch_size = kw
    /\ itr_is_none = TRUE
    /\ itr = NoIterator
    /\ next_path_ind = 0
    /\ it_raised = None
    /\ failed_path = 0
    /\ yielded = << >>
    /\ first_run = << >>
    /\ first_done = FALSE
    /\ n_iter = 0

IteratorIdle == IteratorInit(<< [engine |-> "csv", num_rows |-> 0, columns |-> << IntCol >>] >>, 1)

\* GPUDatasetIterator.__iter__
DsIter ==
    /\ n_iter < MaxIter
    /\ n_iter' = n_iter + 1
    /\ itr_is_none' = TRUE
    /\ itr' = NoIterator
    /\ next_path_ind' = 0
    /\ it_raised' = None
    /\ failed_path' = 0
    /\ yielded' = << >>
    /\ UNCHANGED << paths, kw_batch_size, first_run, first_done >>

\* GPUDatasetIterator.__next__ whose first file iterator cannot be constructed (line 335)
DsNextOpenFails ==
    /\ itr_is_none
    /\ ReaderRaises(paths[next_path_ind + 1], kw_batch_size)
    /\ it_raised' = "ZeroDivisionError"
    /\ failed_path' = next_path_ind + 1
    /\ UNCHANGED << paths, kw_batch_size, itr_is_none, itr, next_path_ind, yielded,
                    first_run, first_done, n_iter >>

\* GPUDatasetIterator.__next__
DsNext ==
    /\ ~(itr_is_none /\ ReaderRaises(paths[next_path_ind + 1], kw_batch_size))
    /\ \E free_mem \in FreeMems :
         LET it0 == IF itr_is_none
                      THEN NewFileIterator(paths, next_path_ind + 1, kw_batch_size, free_mem)
                      ELSE itr
             npi0 == IF itr_is_none THEN next_path_ind + 1 ELSE next_path_ind
             r == NextLoop(paths, kw_batch_size, it0, npi0, free_mem)
         IN  /\ itr_is_none' = FALSE
             /\ itr' = r.itr
             /\ next_path_ind' = r.npi
             /\ it_raised' = IF r.kind = "chunk" THEN None ELSE r.kind
             /\ failed_path' = IF r.kind = "ZeroDivisionError" THEN r.npi ELSE 0
             /\ yielded' = IF r.kind = "chunk"
                             THEN Append(yielded, [path |-> r.itr.file_path, rows |-> r.rows])
                             ELSE yielded
             /\ first_done' = (first_done \/ r.kind = "StopIteration")
             /\ first_run' = IF ~first_done /\ r.kind = "StopIteration" THEN yielded
                               ELSE first_run
    /\ UNCHANGED << paths, kw_batch_size, n_iter >>

(* ---------------------------------------------------------------------- *)
(* Statistics operators (nv_tabular/ops.py)                                *)
(* ---------------------------------------------------------------------- *)
\* the values of a column are 0 .. MaxVal; Null stands for a missing value
Vals == 0 .. MaxVal
Null == MaxVal + 1

\* the chunks handed to apply_op: the values of the one continuous column "x"
RECURSIVE SeqsUpTo(_, _)
SeqsUpTo(S, n) == IF n = 0 THEN { << >> }
                  ELSE SeqsUpTo(S, n - 1) \cup [1 .. n -> S]

ChunkSet == SeqsUpTo(Vals \cup {Null}, MaxChunkLen)

\* the chunks handed to Moments: at least one row, every value 0 or MaxVal
MomentChunks == SeqsUpTo({0, MaxVal}, MaxChunkLen) \ { << >> }

\* python dict: d[k] = v
DictPut(d, k, v) == [c \in (DOMAIN d) \cup {k} |-> IF c = k THEN v ELSE d[c]]

\* Operator.get_columns for the continuous group of the workflow's base columns
GetColumns == BaseColumns(CONT)

\* Series.dropna()
DropNa(chunk) == SelectSeq(chunk, LAMBDA v : v # Null)

RECURSIVE SeqMin(_)
SeqMin(l) == IF Len(l) = 1 THEN l[1] ELSE Min(l[1], SeqMin(Tail(l)))

RECURSIVE SeqMax(_)
SeqMax(l) == IF Len(l) = 1 THEN l[1] ELSE Max(l[1], SeqMax(Tail(l)))

\* variant: the first recorded value is published
MinOfList_First(l) == l[1]

\* min(self.batch_mins[col])
MinOfList(l) == SeqMin(l)

\* max(self.batch_maxs[col])
MaxOfList(l) == SeqMax(l)

\* list.sort(): ascending
RECURSIVE InsertSorted(_, _)
InsertSorted(l, v) == IF l = << >> THEN << v >>
                      ELSE IF v <= Head(l) THEN << v >> \o l
                      ELSE << Head(l) >> \o InsertSorted(Tail(l), v)

RECURSIVE ListSort(_)
ListSort(l) == IF l = << >> THEN << >> ELSE InsertSorted(ListSort(Tail(l)), Head(l))

(* floats, as exact fractions [n, d] with d > 0; NaN has d = 0 *)
Abs(a) == IF a < 0 THEN 0 - a ELSE a

RECURSIVE Gcd(_, _)
Gcd(a, b) == IF b = 0 THEN a ELSE Gcd(b, a % b)

NaN == [n |-> 0, d |-> 0]
IsNaN(r) == r.d = 0
Rat(n, d) == LET g == Gcd(Abs(n), d) IN [n |-> n \div g, d |-> d \div g]
Zero == [n |-> 0, d |-> 1]
RAdd(a, b) == IF IsNaN(a) \/ IsNaN(b) THEN NaN ELSE Rat(a.n * b.d + b.n * a.d, a.d * b.d)
RSub(a, b) == IF IsNaN(a) \/ IsNaN(b) THEN NaN ELSE Rat(a.n * b.d - b.n * a.d, a.d * b.d)
RMul(a, b) == IF IsNaN(a) \/ IsNaN(b) THEN NaN ELSE Rat(a.n * b.n, a.d * b.d)
\* multiplication by, and division by, a whole-valued float k (k > 0 when dividing)
RMulInt(a, k) == IF IsNaN(a) THEN NaN ELSE Rat(a.n * k, a.d)
RDivInt(a, k) == IF IsNaN(a) THEN NaN ELSE Rat(a.n, a.d * k)
\* np.sqrt, kept symbolic
Sqrt(a) == [sqrt_of |-> a]

RECURSIVE ChunkSum(_)
ChunkSum(c) == IF c = << >> THEN 0 ELSE Head(c) + ChunkSum(Tail(c))

RECURSIVE ChunkSumSq(_)
ChunkSumSq(c) == IF c = << >> THEN 0 ELSE Head(c) * Head(c) + ChunkSumSq(Tail(c))

\* gdf[col].mean()
ChunkMean(c) == Rat(ChunkSum(c), Len(c))

\* gdf[col].var(): the sample variance (ddof = 1), NaN for a single row
ChunkVar(c) ==
    IF Len(c) = 1 THEN NaN
    ELSE Rat(Len(c) * ChunkSumSq(c) - ChunkSum(c) * ChunkSum(c), Len(c) * (Len(c) - 1))

NewMinMax == [batch_mins |-> << >>, batch_maxs |-> << >>, mins |-> << >>, maxs |-> << >>]
NewMoments == [counts |-> << >>, means |-> << >>, varis |-> << >>, stds |-> << >>]
NewMedian == [batch_medians |-> << >>, medians |-> << >>]
NewEncoder == [encoders |-> << >>, categories |-> << >>]

\* MinMax.apply_op raises: min() of a column without values
MinMaxRaises(chunk) == DropNa(chunk) = << >>

\* MinMax.apply_op for one column
MinMaxApplyOp(st, col, chunk) ==
    LET col_min == SeqMin(DropNa(chunk))
        col_max == SeqMax(DropNa(chunk))
        mins0 == IF col \in DOMAIN st.batch_mins THEN st.batch_mins[col] ELSE << >>
        maxs0 == IF col \in DOMAIN st.batch_mins THEN st.batch_maxs[col] ELSE << >>
    IN  [st EXCEPT !.batch_mins = DictPut(@, col, Append(mins0, col_min)),
                   !.batch_maxs = DictPut(@, col, Append(maxs0, col_max))]

\* MinMax.read_fin
MinMaxReadFin(st) ==
    LET keys == DOMAIN st.batch_mins
    IN  [st EXCEPT
            !.mins = [c \in (DOMAIN st.mins) \cup keys |->
                         IF c \in keys THEN MinOfList(st.batch_mins[c]) ELSE st.mins[c]],
            !.maxs = [c \in (DOMAIN st.maxs) \cup keys |->
                         IF c \in keys THEN MaxOfList(st.batch_maxs[c]) ELSE st.maxs[c]]]

\* variant: the count restarts with every chunk
MergedCount_Last(n1, n2) == n2

\* self.counts[col] += n2
MergedCount(n1, n2) == n1 + n2

\* Moments.apply_op for one column
MomentsApplyOp(st, col, chunk) ==
    LET known == col \in DOMAIN st.counts
        n1 == IF known THEN st.counts[col] ELSE 0
        n2 == Len(chunk)
        v1 == IF known THEN st.varis[col] ELSE Zero
        v2 == ChunkVar(chunk)
        m1 == IF known THEN st.means[col] ELSE Zero
        m2 == ChunkMean(chunk)
        cnt == MergedCount(n1, n2)
        mean == RDivInt(RAdd(RMulInt(m1, n1), RMulInt(m2, n2)), cnt)
        t1 == RMulInt(v1, n1)
        t2 == RMulInt(v2, n2)
        t3 == RMulInt(RMul(RSub(m1, mean), RSub(m1, mean)), n1)
        t4 == RMulInt(RMul(RSub(m2, mean), RSub(m2, mean)), n2)
        t5 == n1 + n2
    IN  [counts |-> DictPut(st.counts, col, cnt),
         means |-> DictPut(st.means, col, mean),
         varis |-> DictPut(st.varis, col, RDivInt(RAdd(RAdd(t1, t2), RAdd(t3, t4)), t5)),
         stds |-> IF known THEN st.stds ELSE DictPut(st.stds, col, Sqrt(Zero))]

\* Moments.read_fin
MomentsReadFin(st) ==
    [st EXCEPT !.stds = [c \in (DOMAIN st.stds) \cup (DOMAIN st.varis) |->
                            IF c \in DOMAIN st.varis THEN Sqrt(st.varis[c]) ELSE st.stds[c]]]

\* Median.apply_op, the value recorded for a chunk (fill is None): col[len(col) // 2]
\* of the sorted non-missing values when there are at least two, else 0.0.  The
\* subscript is applied to a Series whose index was reset before sorting: read by
\* position it is the middle of the sorted values, read by label the element that
\* stood at that place before sorting.
ChunkMedians(chunk) ==
    LET col == DropNa(chunk)
    IN  IF Len(col) > 1
          THEN { ListSort(col)[Len(col) \div 2 + 1], col[Len(col) \div 2 + 1] }
          ELSE { 0 }

\* Median(fill=None)
NoFill == << >>

\* the fill values a Median is constructed with: None, 0 and 1
Fills == {NoFill, << 0 >>, << 1 >>}

\* python truthiness of self.fill
Truthy(f) == f # NoFill /\ f[1] # 0

\* Median.apply_op, the values the chunk may record: the fill when it is truthy
MedianRecorded(f, chunk) == IF Truthy(f) THEN { f[1] } ELSE ChunkMedians(chunk)

\* Median.apply_op for one column, m being the value recorded for the chunk
MedianApplyOp(st, col, m) ==
    LET l0 == IF col \in DOMAIN st.batch_medians THEN st.batch_medians[col] ELSE << >>
    IN  [st EXCEPT !.batch_medians = DictPut(@, col, Append(l0, m))]

\* variant: the lower middle, index (len - 1) // 2
MiddleIndex_Lower(k) == (k - 1) \div 2 + 1

\* index len(l) // 2 of a python list, counted from 1
MiddleIndex(k) == k \div 2 + 1

\* variant: the least recorded value is dropped from the list once it is sorted
MedianReadFin_Drop(st) ==
    LET keys == DOMAIN st.batch_medians
        sorted == [c \in keys |-> ListSort(st.batch_medians[c])]
    IN  [batch_medians |-> [c \in keys |-> IF Len(sorted[c]) > 1 THEN Tail(sorted[c])
                                           ELSE sorted[c]],
         medians |-> [c \in (DOMAIN st.medians) \cup keys |->
                         IF c \in keys THEN sorted[c][MiddleIndex(Len(sorted[c]))]
                         ELSE st.medians[c]]]

\* Median.read_fin: sorts every list in place and publishes its middle element
MedianReadFin(st) ==
    LET keys == DOMAIN st.batch_medians
        sorted == [c \in keys |-> ListSort(st.batch_medians[c])]
    IN  [batch_medians |-> sorted,
         medians |-> [c \in (DOMAIN st.medians) \cup keys |->
                         IF c \in keys THEN sorted[c][MiddleIndex(Len(sorted[c]))]
                         ELSE st.medians[c]]]

\* DLLabelEncoder(name): no category seen yet, the missing value has its code
NewLabelEncoder == [cats |-> << Null >>, cat_exp_count |-> 0]

\* DLLabelEncoder.fit: the values not seen before are added in first-seen order
RECURSIVE EncoderFit(_, _)
EncoderFit(enc, chunk) ==
    IF chunk = << >> THEN enc
    ELSE EncoderFit(IF InSeq(Head(chunk), enc.cats) THEN enc
                    ELSE [enc EXCEPT !.cats = Append(@, Head(chunk))],
                    Tail(chunk))

\* Encoder.apply_op for one column
EncoderApplyOp(st, col, chunk) ==
    LET e0 == IF col \in DOMAIN st.encoders THEN st.encoders[col] ELSE NewLabelEncoder
    IN  [st EXCEPT !.encoders = DictPut(@, col, EncoderFit(e0, chunk))]

\* Encoder.cat_read_all_files
CatReadAllFiles(cat_obj) == Len(cat_obj.cats) + cat_obj.cat_exp_count

\* Encoder.read_fin
EncoderReadFin(st) ==
    [st EXCEPT !.categories = [c \in (DOMAIN st.categories) \cup (DOMAIN st.encoders) |->
                                  IF c \in DOMAIN st.encoders
                                    THEN CatReadAllFiles(st.encoders[c])
                                    ELSE st.categories[c]]]

\* the run names of the three chunkings of the rows A, B, C
RunNames == {"A|B|C", "A|BC", "AB|C"}

NoRuns == [r \in RunNames |-> [todo |-> << >>, st |-> NewMoments]]

(* ---------------------------------------------------------------------- *)
(* ParquetWriter._write_thread (nvtabular/io/parquet.py)                   *)
(* ---------------------------------------------------------------------- *)
\* the threads running _write_thread, and the shards (output files) of the writer
WriteThreads == {1, 2}
WriteShards == {0, 1}

\* self._eod, and a data item (idx, data); raises tells whether _write_table raises
\* on the data
Eod == [kind |-> "eod", idx |-> 0, raises |-> FALSE]
DataItem(idx, raises) == [kind |-> "data", idx |-> idx, raises |-> raises]
NoItem == [kind |-> None, idx |-> 0, raises |-> FALSE, id |-> 0]

ItemKinds == {Eod} \cup { DataItem(idx, r) : idx \in WriteShards, r \in BOOLEAN }

\* the queues handed to the threads: every item carries its position as identity
QueuedItems ==
    { [k \in 1 .. Len(q) |-> [kind |-> q[k].kind, idx |-> q[k].idx,
                               raises |-> q[k].raises, id |-> k]] :
        q \in SeqsUpTo(ItemKinds, MaxItems) }

PWInit(q) ==
    /\ pw_queue = q
    /\ pw_pc = [t \in WriteThreads |-> "get"]
    /\ pw_item = [t \in WriteThreads |-> NoItem]
    /\ pw_locks = [i \in WriteShards |-> 0]
    /\ pw_taken = {}
    /\ pw_done = [k \in 1 .. MaxItems |-> 0]
    /\ pw_written = << >>

PWIdle == PWInit(<< >>)

\* variant: the sentinel is not marked done
TaskDone_DataOnly(done, item) ==
    IF item.kind = "eod" THEN done ELSE [done EXCEPT ![item.id] = @ + 1]

\* finally: self.queue.task_done()
TaskDone(done, item) == [done EXCEPT ![item.id] = @ + 1]

\* item = self.queue.get(): blocks while the queue is empty
PW_Get(t) ==
    /\ pw_pc[t] = "get"
    /\ pw_queue # << >>
    /\ pw_item' = [pw_item EXCEPT ![t] = Head(pw_queue)]
    /\ pw_queue' = Tail(pw_queue)
    /\ pw_pc' = [pw_pc EXCEPT ![t] = "try"]
    /\ pw_taken' = pw_taken \cup { Head(pw_queue).id }
    /\ UNCHANGED << pw_locks, pw_done, pw_written >>

\* if item is self._eod: break, through the finally clause
PW_Break(t) ==
    /\ pw_pc[t] = "try"
    /\ pw_item[t].kind = "eod"
    /\ pw_done' = TaskDone(pw_done, pw_item[t])
    /\ pw_pc' = [pw_pc EXCEPT ![t] = "returned"]
    /\ UNCHANGED << pw_queue, pw_item, pw_locks, pw_taken, pw_written >>

\* idx, data = item; with self.write_locks[idx]: waits until the lock is free
PW_Acquire(t) ==
    /\ pw_pc[t] = "try"
    /\ pw_item[t].kind = "data"
    /\ pw_locks[pw_item[t].idx] = 0
    /\ pw_locks' = [pw_locks EXCEPT ![pw_item[t].idx] = t]
    /\ pw_pc' = [pw_pc EXCEPT ![t] = "write"]
    /\ UNCHANGED << pw_queue, pw_item, pw_taken, pw_done, pw_written >>

\* self._write_table(idx, data) returns
PW_WriteTable(t) ==
    /\ pw_pc[t] = "write"
    /\ ~pw_item[t].raises
    /\ pw_written' = Append(pw_written, [id |-> pw_item[t].id, idx |-> pw_item[t].idx,
                                         by |-> t, holder |-> pw_locks[pw_item[t].idx]])
    /\ pw_pc' = [pw_pc EXCEPT ![t] = "release"]
    /\ UNCHANGED << pw_queue, pw_item, pw_locks, pw_taken, pw_done >>

\* self._write_table(idx, data) raises: the with statement releases the lock, the
\* finally clause marks the item done, the exception ends the thread
PW_WriteRaises(t) ==
    /\ pw_pc[t] = "write"
    /\ pw_item[t].raises
    /\ pw_locks' = [pw_locks EXCEPT ![pw_item[t].idx] = 0]
    /\ pw_done' = TaskDone(pw_done, pw_item[t])
    /\ pw_pc' = [pw_pc EXCEPT ![t] = "raised"]
    /\ UNCHANGED << pw_queue, pw_item, pw_taken, pw_written >>

\* the with statement ends, then finally: self.queue.task_done(), and the loop goes on
PW_Release(t) ==
    /\ pw_pc[t] = "release"
    /\ pw_locks' = [pw_locks EXCEPT ![pw_item[t].idx] = 0]
    /\ pw_done' = TaskDone(pw_done, pw_item[t])
    /\ pw_pc' = [pw_pc EXCEPT ![t] = "get"]
    /\ UNCHANGED << pw_queue, pw_item, pw_taken, pw_written >>

\* the dictionaries a statistics class declares in its body, or clear() assigns
NewState(kind) ==
    CASE kind = "MinMax" -> NewMinMax
      [] kind = "Moments" -> NewMoments
      [] kind = "Median" -> NewMedian
      [] OTHER -> NewEncoder

\* apply_op of the class on the dictionaries st: the outcomes for one chunk
ApplyOpOf(kind, st, chunk) ==
    CASE kind = "MinMax" -> { MinMaxApplyOp(st, GetColumns[1], chunk) }
      [] kind = "Moments" -> { MomentsApplyOp(st, GetColumns[1], chunk) }
      [] kind = "Median" -> { MedianApplyOp(st, GetColumns[1], m) : m \in ChunkMedians(chunk) }
      [] OTHER -> { EncoderApplyOp(st, GetColumns[1], chunk) }

\* read_fin of the class on the dictionaries st
ReadFinOf(kind, st) ==
    CASE kind = "MinMax" -> MinMaxReadFin(st)
      [] kind = "Moments" -> MomentsReadFin(st)
      [] kind = "Median" -> MedianReadFin(st)
      [] OTHER -> EncoderReadFin(st)

\* the instances of one class
Instances == {1, 2}

\* the class body has run, no instance exists
ShareInit(kind) ==
    /\ sc_kind = kind
    /\ sc_class = NewState(kind)
    /\ sc_own = [i \in Instances |-> FALSE]
    /\ sc_inst = [i \in Instances |-> NewState(kind)]
    /\ sc_made = {}
    /\ sc_n = 0
    /\ sc_last = [op |-> None, inst |-> 0]

ShareIdle == ShareInit(None)

\* attribute lookup self.<dict>: the instance's own attribute, else the class's
AttrsOf(i, own, inst, class) == IF own[i] THEN inst[i] ELSE class

\* bookkeeping of a call on instance i
Called(op, i) ==
    /\ sc_n < MaxCalls
    /\ sc_n' = sc_n + 1
    /\ sc_last' = [op |-> op, inst |-> i]
    /\ UNCHANGED sc_kind

\* item assignments through self.<dict> change the dictionaries looked up
StoreAttrs(i, st) ==
    IF sc_own[i] THEN sc_inst' = [sc_inst EXCEPT ![i] = st] /\ UNCHANGED sc_class
    ELSE sc_class' = st /\ UNCHANGED sc_inst

\* MinMax(), Moments(), Median(), Encoder(): no attribute of the instance is set
ShareConstruct(i) ==
    /\ i \notin sc_made
    /\ Called("init", i)
    /\ sc_made' = sc_made \cup {i}
    /\ UNCHANGED << sc_class, sc_own, sc_inst >>

\* instance.apply_op(gdf, ...)
ShareApplyOp(i, chunk) ==
    /\ i \in sc_made
    /\ Called("apply_op", i)
    /\ \E st \in ApplyOpOf(sc_kind, AttrsOf(i, sc_own, sc_inst, sc_class), chunk) :
         StoreAttrs(i, st)
    /\ UNCHANGED << sc_own, sc_made >>

\* instance.read_fin()
ShareReadFin(i) ==
    /\ i \in sc_made
    /\ Called("read_fin", i)
    /\ StoreAttrs(i, ReadFinOf(sc_kind, AttrsOf(i, sc_own, sc_inst, sc_class)))
    /\ UNCHANGED << sc_own, sc_made >>

\* instance.clear(): every dictionary is rebound as an attribute of the instance
ShareClear(i) ==
    /\ i \in sc_made
    /\ Called("clear", i)
    /\ sc_own' = [sc_own EXCEPT ![i] = TRUE]
    /\ sc_inst' = [sc_inst EXCEPT ![i] = NewState(sc_kind)]
    /\ UNCHANGED << sc_class, sc_made >>

\* the statistics operators as constructed
StatsInit(cls, rs, f) ==
    /\ acc = cls
    /\ fill = f
    /\ ingested = << >>
    /\ rows_in = 0
    /\ minmax = NewMinMax
    /\ moments = NewMoments
    /\ median = NewMedian
    /\ encoder = NewEncoder
    /\ runs = rs
    /\ last_call = None
    /\ fin_streak = 0
    /\ n_chunks = 0
    /\ recorded = << >>
    /\ stat_raised = None

StatsIdle == StatsInit(None, NoRuns, NoFill)

\* bookkeeping of an apply_op call
Applied(exc, rec, chunk) ==
    /\ n_chunks < MaxChunks
    /\ ingested' = chunk
    /\ rows_in' = rows_in + Len(chunk)
    /\ n_chunks' = n_chunks + 1
    /\ last_call' = "apply_op"
    /\ fin_streak' = 0
    /\ stat_raised' = exc
    /\ recorded' = rec
    /\ UNCHANGED << acc, runs, fill >>

\* bookkeeping of a read_fin call
Finalized ==
    /\ fin_streak < 2
    /\ fin_streak' = fin_streak + 1
    /\ last_call' = "read_fin"
    /\ stat_raised' = None
    /\ UNCHANGED << acc, runs, n_chunks, recorded, fill, ingested, rows_in >>

\* MinMax.apply_op(gdf, ...)
MinMaxApply(chunk) ==
    /\ acc = "MinMax"
    /\ IF MinMaxRaises(chunk)
         THEN /\ Applied("ValueError", recorded, chunk)
              /\ UNCHANGED minmax
         ELSE /\ Applied(None, Append(recorded, [lo |-> SeqMin(DropNa(chunk)),
                                                 hi |-> SeqMax(DropNa(chunk))]),
                         chunk)
              /\ minmax' = MinMaxApplyOp(minmax, GetColumns[1], chunk)
    /\ UNCHANGED << moments, median, encoder >>

\* MinMax.read_fin()
MinMaxFin ==
    /\ acc = "MinMax"
    /\ Finalized
    /\ minmax' = MinMaxReadFin(minmax)
    /\ UNCHANGED << moments, median, encoder >>

\* Moments.apply_op(gdf, ...)
MomentsApply(chunk) ==
    /\ acc = "Moments"
    /\ Applied(None, recorded, chunk)
    /\ moments' = MomentsApplyOp(moments, GetColumns[1], chunk)
    /\ UNCHANGED << minmax, median, encoder >>

\* Moments.read_fin()
MomentsFin ==
    /\ acc = "Moments"
    /\ Finalized
    /\ moments' = MomentsReadFin(moments)
    /\ UNCHANGED << minmax, median, encoder >>

\* Median.apply_op(gdf, ...)
MedianApply(chunk) ==
    /\ acc = "Median"
    /\ \E m \in MedianRecorded(fill, chunk) :
         /\ Applied(None, Append(recorded, m), chunk)
         /\ median' = MedianApplyOp(median, GetColumns[1], m)
    /\ UNCHANGED << minmax, moments, encoder >>

\* Median.read_fin()
MedianFin ==
    /\ acc = "Median"
    /\ Finalized
    /\ median' = MedianReadFin(median)
    /\ UNCHANGED << minmax, moments, encoder >>

\* Encoder.apply_op(gdf, ...)
EncoderApply(chunk) ==
    /\ acc = "Encoder"
    /\ Applied(None, recorded, chunk)
    /\ encoder' = EncoderApplyOp(encoder, GetColumns[1], chunk)
    /\ UNCHANGED << minmax, moments, median >>

\* Encoder.read_fin()
EncoderFin ==
    /\ acc = "Encoder"
    /\ Finalized
    /\ encoder' = EncoderReadFin(encoder)
    /\ UNCHANGED << minmax, moments, median >>

\* Moments.apply_op of the next chunk of one of the chunkings
MergeIngest(r) ==
    /\ runs[r].todo # << >>
    /\ runs' = [runs EXCEPT ![r] = [todo |-> Tail(@.todo),
                                    st |-> MomentsApplyOp(@.st, GetColumns[1], Head(@.todo))]]
    /\ UNCHANGED << acc, minmax, moments, median, encoder, last_call, fin_streak,
                    n_chunks, recorded, stat_raised, fill, ingested, rows_in >>

(* ---------------------------------------------------------------------- *)
(* TransformOperator.apply_op on one chunk (ops.py)                        *)
(* ---------------------------------------------------------------------- *)
\* a column of the frame: a column of the dataset (op = None) or the column
\* f"{name}_{op}" an operator derived from it
Col(name) == [name |-> name, op |-> None]

NewCol(col, op) == [name |-> col.name, op |-> op]

Rename(cols, op) == [k \in 1 .. Len(cols) |-> NewCol(cols[k], op)]

EmptyDict == << >>

IsEmptyDict(d) == DOMAIN d = {}

\* what op_logic returns: a frame, or None
Frame(cols, rows) == [none |-> FALSE, cols |-> cols, rows |-> rows]

NoFrame == [none |-> TRUE, cols |-> << >>, rows |-> 0]

\* the transform operators the pass applies, each constructed with its defaults
\* (columns=None, preprocessing=True, replace=False)
ApplyOps == {"LogOp", "Normalize", "FillMissing"}

\* the dictionary of Workflow.stats an operator's op_logic reads
StatKey(op) == IF op = "Normalize" THEN "stds" ELSE "medians"

\* LogOp.op_logic
LogOpOpLogic(g, target_columns) ==
    IF target_columns = << >> THEN g
    ELSE Frame(Rename(target_columns, "LogOp"), g.rows)

\* Normalize.apply_mean_std: one new column per name whose std is positive, in a
\* frame that starts with no column and no row
ApplyMeanStd(g, stats_context, cont_names) ==
    LET kept == SelectSeq(cont_names, LAMBDA c : stats_context.stds[c.name] > 0)
    IN  Frame(Rename(kept, "Normalize"), IF kept = << >> THEN 0 ELSE g.rows)

\* Normalize.op_logic
NormalizeOpLogic(g, target_columns, stats_context) ==
    IF target_columns = << >> \/ IsEmptyDict(stats_context.stds) THEN NoFrame
    ELSE ApplyMeanStd(g, stats_context, target_columns)

\* FillMissing.op_logic (apply_filler with add_col=False renames the target columns)
FillMissingOpLogic(g, target_columns, stats_context) ==
    IF target_columns = << >> \/ IsEmptyDict(stats_context.medians) THEN g
    ELSE Frame(Rename(target_columns, "FillMissing"), g.rows)

OpLogic(op, g, target_columns, stats_context) ==
    IF op = "LogOp" THEN LogOpOpLogic(g, target_columns)
    ELSE IF op = "Normalize" THEN NormalizeOpLogic(g, target_columns, stats_context)
    ELSE FillMissingOpLogic(g, target_columns, stats_context)

\* Operator.get_columns(columns_ctx, "continuous", ["base"])
TargetColumns(ctx) == IF "base" \in DOMAIN ctx THEN ctx["base"] ELSE << >>

\* TransformOperator.update_columns_ctx with preprocessing=True
UpdateColumnsCtx(ctx, op, new_cols) == DictPut(ctx, op, new_cols)

\* "not new_gdf" on a frame: the frame class either answers with its length or
\* refuses a truth value, depending on the dataframe library in use
Truthiness == {"len", "raises"}

\* TransformOperator.assemble_new_df with replace=False, the truth value taken
\* from the length
AssembleNewDf(origin_gdf, new_gdf) ==
    IF new_gdf.rows = 0 THEN origin_gdf
    ELSE Frame(origin_gdf.cols \o new_gdf.cols, origin_gdf.rows)

ApplyInit(base, rows, stds, medians) ==
    /\ gdf = Frame(base \o << Col("c") >>, rows)
    /\ columns_ctx = [k \in {"base"} |-> base]
    /\ wf_stats = [stds |-> stds, medians |-> medians]
    /\ ap_last = None
    /\ ap_raised = None
    /\ gdf_before = gdf
    /\ ctx_before = columns_ctx
    /\ n_apply = 0

ApplyIdle == ApplyInit(<< >>, 0, EmptyDict, EmptyDict)

\* TransformOperator.apply_op(gdf, columns_ctx, "continuous", ["base"], stats)
TransformApplyOp(op, truth) ==
    /\ ap_raised = None
    /\ n_apply < MaxApply
    /\ n_apply' = n_apply + 1
    /\ ap_last' = op
    /\ gdf_before' = gdf
    /\ ctx_before' = columns_ctx
    /\ LET target_cols == TargetColumns(columns_ctx)
           new_gdf == OpLogic(op, gdf, target_cols, wf_stats)
       IN  IF new_gdf.none
             THEN \* new_gdf.columns on None
                  /\ ap_raised' = "AttributeError"
                  /\ UNCHANGED << gdf, columns_ctx >>
             ELSE /\ columns_ctx' = UpdateColumnsCtx(columns_ctx, op, new_gdf.cols)
                  /\ IF truth = "raises"
                       THEN ap_raised' = "ValueError" /\ gdf' = gdf
                       ELSE ap_raised' = None /\ gdf' = AssembleNewDf(gdf, new_gdf)
    /\ UNCHANGED wf_stats

(* ---------------------------------------------------------------------- *)
(* Workflow.update_stats / exec_phase / run_ops_for_phase (preproc.py)     *)
(* ---------------------------------------------------------------------- *)
\* default_out of the transform operators
DefaultOut(op) == IF op = "Categorify" THEN CAT ELSE CONT

\* Operator.get_columns with columns=None: one columns_ctx entry per name of
\* target_cols that is a key of columns_ctx[cols_grp]
GetColumnKeys(ctx, cols_grp, target_cols) ==
    LET present == SelectSeq(target_cols,
                             LAMBDA tar : tar = "base" \/ << cols_grp, tar >> \in ctx)
    IN  [k \in 1 .. Len(present) |-> << cols_grp, present[k] >>]

\* a column name: a name of the dataset (or an operator id in a final list), followed
\* by the "_{op}" suffixes the operators appended
BaseCol(n) == [name |-> n, ops |-> << >>]

Derived(c, op) == [c EXCEPT !.ops = Append(@, op)]

Tokens(names) == [k \in 1 .. Len(names) |-> BaseCol(names[k])]

RECURSIVE ConcatAll(_)
ConcatAll(ss) == IF ss = << >> THEN << >> ELSE Head(ss) \o ConcatAll(Tail(ss))

\* TransformOperator.update_columns_ctx(columns_ctx, input_cols, new_cols)
UpdateCtx(st, op, new_cols) ==
    LET out == DefaultOut(op)
        written == [st EXCEPT !.ctx = @ \cup {<< out, op >>},
                              !.cols = DictPut(@, << out, op >>, new_cols)]
    IN  IF ex_pre THEN written
        ELSE IF out \in ex_alias
          THEN \* the final list is the list stored under "base"
               [written EXCEPT !.final[out] = Append(@, BaseCol(op)),
                               !.cols[<< out, "base" >>] = Append(@, BaseCol(op))]
          ELSE [written EXCEPT !.final[out] = Append(@, BaseCol(op))]

\* TransformOperator.apply_op on the chunk whose frame has the columns st.frame;
\* the statistics the operator reads are present and every std is positive
TransformTask(st, task, at) ==
    LET op == task.op
        keys == GetColumnKeys(st.ctx, task.cols, task.deps)
        target == ConcatAll([k \in 1 .. Len(keys) |-> st.cols[keys[k]]])
        InFrame(c) == \E j \in 1 .. Len(st.frame) : st.frame[j] = c
        usable == IF op = "Categorify" THEN SelectSeq(target, InFrame) ELSE target
        new_cols == IF target = << >> THEN st.frame
                    ELSE [k \in 1 .. Len(usable) |-> Derived(usable[k], op)]
    IN  IF target = << >> /\ op = "Normalize"
          THEN [st EXCEPT !.raised = "AttributeError"]
        ELSE IF \E k \in 1 .. Len(usable) : ~InFrame(usable[k])
          THEN [st EXCEPT !.raised = "KeyError"]
        ELSE IF ex_truth = "raises"
          THEN [UpdateCtx(st, op, new_cols) EXCEPT !.raised = "ValueError"]
        ELSE [UpdateCtx(st, op, new_cols) EXCEPT
                  !.frame = @ \o new_cols,
                  !.trace = Append(@, [phase |-> at.phase, pos |-> at.pos])]

\* one iteration of the loop of run_ops_for_phase;
\* st = [ctx, cols, final, frame, acc, trace, raised]
RunTask(st, task, record_stats, at) ==
    IF st.raised # None THEN st
    ELSE IF record_stats /\ task.op \in ex_stat_ops
      THEN \* StatOperator.apply_op on the registered object
           LET keys == GetColumnKeys(st.ctx, task.cols, task.deps)
               recs == [k \in 1 .. Len(keys) |->
                          [pass |-> at.pass, chunk |-> at.chunk, key |-> keys[k]]]
           IN  [st EXCEPT !.acc[task.op] = @ \o recs,
                          !.trace = Append(@, [phase |-> at.phase, pos |-> at.pos])]
    ELSE IF task.op \in FeatIds \cup DfIds
      THEN TransformTask(st, task, at)
    ELSE st

\* run_ops_for_phase(gdf, tasks, record_stats), from task i on
RECURSIVE RunOpsForPhase(_, _, _, _, _)
RunOpsForPhase(st, tasks, i, record_stats, at) ==
    IF i > Len(tasks) THEN st
    ELSE RunOpsForPhase(RunTask(st, tasks[i], record_stats, [at EXCEPT !.pos = i]),
                        tasks, i + 1, record_stats, at)

\* exec_phase, "run all previous phases to get df to correct state"
RECURSIVE RunPrevious(_, _, _, _)
RunPrevious(st, i, phase_index, at) ==
    IF i >= phase_index THEN st
    ELSE RunPrevious(RunOpsForPhase(st, ex_phases[i], 1, FALSE, [at EXCEPT !.phase = i]),
                     i + 1, phase_index, at)

\* variant: the chunk goes to the shuffler in every phase
HandsOver_EveryPhase(export_path, shuffler, phase_index, nphases) ==
    export_path /\ shuffler

\* exec_phase: "if export_path and shuffler and phase_index == len(self.phases) - 1"
HandsOver(export_path, shuffler, phase_index, nphases) ==
    export_path /\ shuffler /\ phase_index = nphases - 1

\* Workflow after load_config, before apply(dataset, shuffle=shuffle) with
\* record_stats=True and the default output_path
ExecInit(w, n, truth, shuffle, pre) ==
    /\ ex_phases = w.phases
    /\ ex_stat_ops = w.stat_ops
    /\ ex_n = n
    /\ ex_truth = truth
    /\ ex_pass = 1
    /\ ex_next = 1
    /\ ex_ctx = {}
    /\ ex_acc = [s \in StatIds |-> << >>]
    /\ ex_stats = [s \in StatIds |-> << >>]
    /\ ex_aliased = FALSE
    /\ ex_pub = << >>
    /\ ex_trace = << >>
    /\ ex_raised = None
    /\ ex_shuffle = shuffle
    /\ ex_handed = << >>
    /\ ex_closed = FALSE
    /\ ex_pre = pre
    /\ ex_cols = [key \in { << g, "base" >> : g \in {CONT, CAT, "label", ALL} } |->
                     Tokens(BaseColumns(key[1]))]
    /\ ex_final = [g \in DOMAIN w.final_ctx |-> Tokens(w.final_ctx[g])]
    /\ ex_alias = { g \in {CONT, CAT} :
                      \A k \in 1 .. Len(w.task_sets["PP"]) : w.task_sets["PP"][k].cols # g }

ExecIdle ==
    ExecInit([phases |-> << >>, stat_ops |-> {}, final_ctx |-> CreateFinalColRefs(<< >>),
              task_sets |-> [pn \in {"FE", "PP"} |-> << >>]], 0, "len", FALSE, TRUE)

\* exec_phase: one iteration of "for gdf in itr"; add_raises: Shuffler.add_data
\* raises on this chunk
ExecChunk(add_raises) ==
    /\ ex_raised = None
    /\ ex_pass <= Len(ex_phases)
    /\ ex_next <= ex_n
    /\ LET at == [pass |-> ex_pass, chunk |-> ex_next, phase |-> ex_pass, pos |-> 0]
           st0 == [ctx |-> ex_ctx, cols |-> ex_cols, final |-> ex_final,
                   frame |-> Tokens(BaseColumns(ALL)), acc |-> ex_acc,
                   trace |-> << >>, raised |-> None]
           st1 == RunPrevious(st0, 1, ex_pass, at)
           st2 == RunOpsForPhase(st1, ex_phases[ex_pass], 1, TRUE, at)
       IN  /\ ex_ctx' = st2.ctx
           /\ ex_cols' = st2.cols
           /\ ex_final' = st2.final
           /\ ex_acc' = st2.acc
           /\ ex_trace' = st2.trace
           /\ ex_stats' = IF ex_aliased THEN st2.acc ELSE ex_stats
           /\ IF st2.raised = None
                   /\ HandsOver(TRUE, ex_shuffle, ex_pass - 1, Len(ex_phases))
                THEN /\ ex_handed' = Append(ex_handed, [pass |-> ex_pass, chunk |-> ex_next,
                                                        trace |-> st2.trace])
                     /\ ex_raised' = IF add_raises THEN "add_data" ELSE None
                ELSE /\ ~add_raises
                     /\ ex_handed' = ex_handed
                     /\ ex_raised' = st2.raised
    /\ ex_next' = ex_next + 1
    /\ UNCHANGED << ex_phases, ex_stat_ops, ex_n, ex_truth, ex_pass, ex_aliased, ex_pub,
                    ex_shuffle, ex_closed, ex_pre, ex_alias >>

\* exec_phase after the loop: read_fin of the operators that ran, get_stats (which
\* stores each registered operator's own dictionaries in Workflow.stats); then
\* update_stats goes on to the next phase
ExecFinish ==
    /\ ex_raised = None
    /\ ex_pass <= Len(ex_phases)
    /\ ex_next = ex_n + 1
    /\ ex_stats' = [s \in StatIds |-> IF s \in ex_stat_ops THEN ex_acc[s] ELSE ex_stats[s]]
    /\ ex_aliased' = TRUE
    /\ ex_pub' = Append(ex_pub, ex_stats')
    /\ ex_pass' = ex_pass + 1
    /\ ex_next' = 1
    /\ UNCHANGED << ex_phases, ex_stat_ops, ex_n, ex_truth, ex_ctx, ex_acc, ex_trace,
                    ex_raised, ex_shuffle, ex_handed, ex_closed, ex_pre, ex_cols,
                    ex_final, ex_alias >>

\* apply after update_stats returned: "if shuffle: shuffler.close_writers()"
ExecClose ==
    /\ ex_raised = None
    /\ ex_pass > Len(ex_phases)
    /\ ex_shuffle
    /\ ~ex_closed
    /\ ex_closed' = TRUE
    /\ UNCHANGED << ex_phases, ex_stat_ops, ex_n, ex_truth, ex_pass, ex_next, ex_ctx,
                    ex_acc, ex_stats, ex_aliased, ex_pub, ex_trace, ex_raised,
                    ex_shuffle, ex_handed, ex_pre, ex_cols, ex_final, ex_alias >>

(* ---------------------------------------------------------------------- *)
(* Initial state: Shuffler.__init__                                        *)
(* ---------------------------------------------------------------------- *)
ShufflerInit(N, rows) ==
    /\ num_out_files = N
    /\ row_counts = rows
    /\ cont_saving = TRUE
    /\ buckets_is_none = TRUE
    /\ buckets = <<>>
    /\ locks_bucket = <<>>
    /\ file_create_started = FALSE
    /\ b_idxs = <<>>
    /\ writers = <<>>
    /\ writer_files = <<>>
    /\ writers_thread_set = FALSE
    /\ writers_thread = <<>>
    /\ threads = <<>>
    /\ files = [i \in 0 .. (N - 1) |-> NewFile]
    /\ prod_pc = "idle"
    /\ gdf_rows = 0
    /\ slice_size = 0
    /\ x = 0
    /\ chunks = <<>>
    /\ enq = [i \in 0 .. (N - 1) |-> <<>>]
    /\ raised = None

Init == /\ \E N \in 1 .. MaxShards : ShufflerInit(N, 1 .. MaxRows)
        /\ WorkflowInit
        /\ IteratorIdle
        /\ StatsIdle
        /\ ApplyIdle
        /\ PhaseIdle /\ ExecIdle /\ ReaderIdle /\ ShareIdle /\ ExportIdle /\ PWIdle

(* ---------------------------------------------------------------------- *)
(* Producer: Shuffler.add_data                                             *)
(* ---------------------------------------------------------------------- *)
\* lines 398-420: create the buckets, start the writers once, compute the
\* slice size (raises ZeroDivisionError when int_slice_size is 0), shuffle b_idxs
AddData(R) ==
    /\ prod_pc = "idle"
    /\ (Len(chunks) + 1) * num_out_files <= MaxPieces
    /\ R \in row_counts
    /\ chunks' = Append(chunks, R)
    /\ buckets_is_none' = FALSE
    /\ buckets' = IF buckets_is_none THEN [i \in Shards |-> <<>>] ELSE buckets
    /\ locks_bucket' = IF buckets_is_none THEN [i \in Shards |-> 0] ELSE locks_bucket
    /\ file_create_started' = TRUE
    /\ IF NeedStartWriters(file_create_started)
         THEN /\ threads' = threads \o [k \in 1 .. num_out_files |-> NewThread(k - 1)]
              /\ writers_thread' = [k \in 1 .. num_out_files |-> Len(threads) + k]
              /\ writers_thread_set' = TRUE
              /\ writer_files' = writer_files \o [k \in 1 .. num_out_files |-> k - 1]
         ELSE UNCHANGED << threads, writers_thread, writers_thread_set, writer_files >>
    /\ gdf_rows' = R
    /\ IF IntSliceSize(R, num_out_files) = 0
         THEN /\ raised' = "ZeroDivisionError"
              /\ prod_pc' = "idle"
              /\ UNCHANGED << slice_size, b_idxs, x >>
         ELSE /\ raised' = None
              /\ slice_size' = SliceSize(R, num_out_files)
              /\ b_idxs' \in ShardPerms(num_out_files)
              /\ x' = 0
              /\ prod_pc' = "acquire"
    /\ UNCHANGED << num_out_files, row_counts, cont_saving, writers, files, enq >>

\* variant: the producer goes on to the append without taking the lock
P_Acquire_Skip ==
    /\ prod_pc = "acquire"
    /\ prod_pc' = "append"
    /\ UNCHANGED << num_out_files, row_counts, cont_saving, buckets_is_none, buckets,
                    locks_bucket, file_create_started, b_idxs, writers, writer_files,
                    writers_thread_set, writers_thread, threads, files,
                    gdf_rows, slice_size, x, chunks, enq, raised >>

\* line 429: self.locks_bucket[b_idx].acquire()
P_Acquire ==
    /\ prod_pc = "acquire"
    /\ locks_bucket[b_idxs[x]] = 0
    /\ locks_bucket' = [locks_bucket EXCEPT ![b_idxs[x]] = -1]
    /\ prod_pc' = "append"
    /\ UNCHANGED << num_out_files, row_counts, cont_saving, buckets_is_none, buckets,
                    file_create_started, b_idxs, writers, writer_files,
                    writers_thread_set, writers_thread, threads, files,
                    gdf_rows, slice_size, x, chunks, enq, raised >>

\* lines 423-431: self.buckets[b_idx].append(to_write.to_arrow()); release(); next x
\* or return
P_Append ==
    /\ prod_pc = "append"
    /\ LET piece == SliceOf(Len(chunks), gdf_rows, slice_size, x)
       IN  /\ buckets' = [buckets EXCEPT ![b_idxs[x]] = Append(@, piece)]
           /\ enq' = [enq EXCEPT ![b_idxs[x]] = Append(@, piece)]
    /\ locks_bucket' = [locks_bucket EXCEPT ![b_idxs[x]] = 0]
    /\ x' = x + 1
    /\ prod_pc' = IF x + 1 < num_out_files THEN "acquire" ELSE "idle"
    /\ UNCHANGED << num_out_files, row_counts, cont_saving, buckets_is_none,
                    file_create_started, b_idxs, writers, writer_files,
                    writers_thread_set, writers_thread,
                    threads, files, gdf_rows, slice_size, chunks, raised >>

(* ---------------------------------------------------------------------- *)
(* Producer: Shuffler.close_writers                                        *)
(* ---------------------------------------------------------------------- *)
\* line 434-435: the stop flag is raised; iterating self.writers_thread raises
\* AttributeError when start_writers never ran
CloseWriters ==
    /\ prod_pc = "idle"
    /\ cont_saving' = FALSE
    /\ IF ~writers_thread_set
         THEN /\ raised' = "AttributeError"
              /\ prod_pc' = "failed"
         ELSE /\ raised' = None
              /\ prod_pc' = "join"
    /\ UNCHANGED << num_out_files, row_counts, buckets_is_none, buckets, locks_bucket,
                    file_create_started, b_idxs, writers, writer_files,
                    writers_thread_set, writers_thread, threads, files,
                    gdf_rows, slice_size, x, chunks, enq >>

\* lines 435-446: every join has returned; reset the fields, close the writers
C_Join ==
    /\ prod_pc = "join"
    /\ \A k \in 1 .. Len(writers_thread) :
          threads[writers_thread[k]].pc \in {"done", "crashed"}
    /\ writers_thread' = <<>>
    /\ buckets' = <<>>
    /\ locks_bucket' = <<>>
    /\ file_create_started' = FALSE
    /\ files' = [i \in DOMAIN files |->
                   IF \E k \in 1 .. Len(writers) : writers[k] = i
                     THEN [files[i] EXCEPT !.closed = TRUE] ELSE files[i]]
    /\ writers' = <<>>
    /\ writer_files' = <<>>
    /\ prod_pc' = "closed"
    /\ UNCHANGED << num_out_files, row_counts, cont_saving, buckets_is_none, b_idxs,
                    writers_thread_set, threads,
                    gdf_rows, slice_size, x, chunks, enq, raised >>

(* ---------------------------------------------------------------------- *)
(* Writer thread t: Shuffler._start_file_writers(idx, out_file)            *)
(* ---------------------------------------------------------------------- *)
ThreadIds == 1 .. Len(threads)

wframe == << num_out_files, row_counts, cont_saving, buckets_is_none,
             file_create_started, b_idxs,
             writer_files, writers_thread_set, writers_thread, prod_pc, gdf_rows, slice_size, x,
             chunks, enq, raised >>

\* lines 365-376: file not created yet: open it on a non-empty poll, else sleep.
\* The check of line 376 that follows the opening reads the same bucket, which
\* only this thread pops, so it is taken with the opening.
W_Open(t) ==
    /\ threads[t].pc = "poll"
    /\ ~threads[t].file_created
    /\ IF ~buckets_is_none /\ CanOpen(buckets[threads[t].idx])
         THEN /\ files' = [files EXCEPT ![threads[t].idx].openers = Append(@, t)]
              /\ writers' = Append(writers, threads[t].idx)
              /\ threads' = [threads EXCEPT ![t].file_created = TRUE,
                                              ![t].pc = IF Len(buckets[threads[t].idx]) > 0
                                                          THEN "acquire" ELSE "flag"]
         ELSE \* time.sleep(self.writer_wait_time); continue
              /\ threads' = [threads EXCEPT ![t].pc = "sleep"]
              /\ UNCHANGED << files, writers >>
    /\ UNCHANGED << buckets, locks_bucket >>
    /\ UNCHANGED wframe

\* variant: the thread goes for the lock without looking at the bucket
W_Check_Blind(t) ==
    /\ threads[t].pc = "poll"
    /\ threads[t].file_created
    /\ threads' = [threads EXCEPT ![t].pc = "acquire"]
    /\ UNCHANGED << buckets, locks_bucket, files, writers >>
    /\ UNCHANGED wframe

\* line 376: if len(self.buckets[idx]) > 0 ... elif (line 382)
W_Check(t) ==
    /\ threads[t].pc = "poll"
    /\ threads[t].file_created
    /\ threads' = [threads EXCEPT ![t].pc =
                      IF Len(buckets[threads[t].idx]) > 0 THEN "acquire" ELSE "flag"]
    /\ UNCHANGED << buckets, locks_bucket, files, writers >>
    /\ UNCHANGED wframe

\* line 377: self.locks_bucket[idx].acquire()
W_Acquire(t) ==
    /\ threads[t].pc = "acquire"
    /\ locks_bucket[threads[t].idx] = 0
    /\ locks_bucket' = [locks_bucket EXCEPT ![threads[t].idx] = t]
    /\ threads' = [threads EXCEPT ![t].pc = "pop"]
    /\ UNCHANGED << buckets, files, writers >>
    /\ UNCHANGED wframe

\* lines 378-379: dt = self.buckets[idx].pop(); release()
\* (pop raises IndexError on an empty list and the lock stays held)
W_Pop(t) ==
    /\ threads[t].pc = "pop"
    /\ LET b == buckets[threads[t].idx]
       IN  IF Len(b) = 0
             THEN /\ threads' = [threads EXCEPT ![t].pc = "crashed"]
                  /\ UNCHANGED << buckets, locks_bucket >>
             ELSE /\ threads' = [threads EXCEPT ![t].dt = b[PopIndex(b)], ![t].pc = "write"]
                  /\ buckets' = [buckets EXCEPT ![threads[t].idx] =
                                    [k \in 1 .. (Len(b) - 1) |->
                                        IF k < PopIndex(b) THEN b[k] ELSE b[k + 1]]]
                  /\ locks_bucket' = [locks_bucket EXCEPT ![threads[t].idx] = 0]
    /\ UNCHANGED << files, writers >>
    /\ UNCHANGED wframe

\* lines 380-385: writer.write_table(dt); dt = []; time.sleep, then the next poll
W_Write(t) ==
    /\ threads[t].pc = "write"
    /\ files' = [files EXCEPT ![threads[t].idx].tables = Append(@, threads[t].dt),
                              ![threads[t].idx].writtenby = @ \cup {t}]
    /\ threads' = [threads EXCEPT ![t].dt = NoPiece, ![t].pc = "poll"]
    /\ UNCHANGED << buckets, locks_bucket, writers >>
    /\ UNCHANGED wframe

\* lines 382-385: elif not self.cont_saving: break; otherwise time.sleep and poll again
W_Flag(t) ==
    /\ threads[t].pc = "flag"
    /\ threads' = [threads EXCEPT ![t].pc = IF MayExit(cont_saving) THEN "done" ELSE "poll"]
    /\ UNCHANGED << buckets, locks_bucket, files, writers >>
    /\ UNCHANGED wframe

\* lines 373-374: time.sleep(self.writer_wait_time) returns; continue with the next
\* poll (the sleep of line 385 is taken with the step that precedes it)
W_Wake(t) ==
    /\ threads[t].pc = "sleep"
    /\ threads' = [threads EXCEPT ![t].pc = "poll"]
    /\ UNCHANGED << buckets, locks_bucket, files, writers >>
    /\ UNCHANGED wframe

WriterStep(t) ==
    \/ W_Open(t)
    \/ W_Check(t)
    \/ W_Acquire(t)
    \/ W_Pop(t)
    \/ W_Write(t)
    \/ W_Flag(t)
    \/ W_Wake(t)

ProducerStep ==
    \/ P_Acquire
    \/ P_Append
    \/ C_Join

ShufflerNext ==
    \/ \E R \in row_counts : AddData(R)
    \/ CloseWriters
    \/ ProducerStep
    \/ \E t \in ThreadIds : WriterStep(t)

Next == ShufflerNext /\ UNCHANGED << wfvars, itvars, acvars, apvars, pcvars, exvars, rdvars, scvars, xpvars, pwvars >>

Spec == Init /\ [][Next]_vars

\* the spec's shuffle scenario scaled down: one chunk over WideShards shards
InitWide == ShufflerInit(WideShards, {WideRows}) /\ WorkflowInit /\ IteratorIdle /\ StatsIdle /\ ApplyIdle /\ PhaseIdle /\ ExecIdle /\ ReaderIdle /\ ShareIdle /\ ExportIdle /\ PWIdle

SpecWide == InitWide /\ [][Next]_vars

\* The scheduler alone: a workflow configured through the operator-list API and
\* finalized, with no shuffler in use
InitSched == ShufflerInit(1, {}) /\ WorkflowInit /\ IteratorIdle /\ StatsIdle /\ ApplyIdle /\ PhaseIdle /\ ExecIdle /\ ReaderIdle /\ ShareIdle /\ ExportIdle /\ PWIdle

NextSched ==
    \/ \E ops \in Chains(MaxOps) : AddFeature(ops) /\ UNCHANGED << shvars, itvars, acvars, apvars, pcvars, exvars, rdvars, scvars, xpvars, pwvars >>
    \/ \E ops \in Chains(MaxOps) : AddPreprocess(ops) /\ UNCHANGED << shvars, itvars, acvars, apvars, pcvars, exvars, rdvars, scvars, xpvars, pwvars >>
    \/ \E op \in UserOps : AddFeature(<< op >>) /\ UNCHANGED << shvars, itvars, acvars, apvars, pcvars, exvars, rdvars, scvars, xpvars, pwvars >>
    \/ \E op \in UserOps : AddPreprocess(<< op >>) /\ UNCHANGED << shvars, itvars, acvars, apvars, pcvars, exvars, rdvars, scvars, xpvars, pwvars >>
    \/ LoadConfig /\ UNCHANGED << shvars, itvars, acvars, apvars, pcvars, exvars, rdvars, scvars, xpvars, pwvars >>
    \/ LoadConfigAgain /\ UNCHANGED << shvars, itvars, acvars, apvars, pcvars, exvars, rdvars, scvars, xpvars, pwvars >>
    \/ Apply /\ UNCHANGED << shvars, itvars, acvars, apvars, pcvars, exvars, rdvars, scvars, xpvars, pwvars >>
    \/ SaveStats /\ UNCHANGED << shvars, itvars, acvars, apvars, pcvars, exvars, rdvars, scvars, xpvars, pwvars >>
    \/ LoadStats /\ UNCHANGED << shvars, itvars, acvars, apvars, pcvars, exvars, rdvars, scvars, xpvars, pwvars >>

SpecSched == InitSched /\ [][NextSched]_vars

\* Workflow(export=...), declarations, finalize()
InitExport ==
    /\ ShufflerInit(1, {}) /\ WorkflowInit /\ IteratorIdle /\ StatsIdle /\ ApplyIdle
    /\ PhaseIdle /\ ExecIdle /\ ReaderIdle /\ ShareIdle
    /\ export \in BOOLEAN
    /\ PWIdle

NextExport ==
    \/ \E ops \in Chains(MaxOps) : AddFeature(ops) /\ UNCHANGED << shvars, itvars, acvars, apvars, pcvars, exvars, rdvars, scvars, xpvars, pwvars >>
    \/ \E ops \in Chains(MaxOps) : AddPreprocess(ops) /\ UNCHANGED << shvars, itvars, acvars, apvars, pcvars, exvars, rdvars, scvars, xpvars, pwvars >>
    \/ \E op \in UserOps : AddFeature(<< op >>) /\ UNCHANGED << shvars, itvars, acvars, apvars, pcvars, exvars, rdvars, scvars, xpvars, pwvars >>
    \/ \E op \in UserOps : AddPreprocess(<< op >>) /\ UNCHANGED << shvars, itvars, acvars, apvars, pcvars, exvars, rdvars, scvars, xpvars, pwvars >>
    \/ LoadConfig /\ UNCHANGED << shvars, itvars, acvars, apvars, pcvars, exvars, rdvars, scvars, xpvars, pwvars >>

SpecExport == InitExport /\ [][NextExport]_vars

\* the writer threads of a ParquetWriter and the items put on its queue
InitWriter ==
    /\ ShufflerInit(1, {}) /\ WorkflowInit /\ IteratorIdle /\ StatsIdle /\ ApplyIdle
    /\ PhaseIdle /\ ExecIdle /\ ReaderIdle /\ ShareIdle /\ ExportIdle
    /\ \E q \in QueuedItems : PWInit(q)

NextWriter ==
    \/ \E t \in WriteThreads : PW_Get(t) /\ UNCHANGED << shvars, wfvars, itvars, acvars, apvars, pcvars, exvars, rdvars, scvars, xpvars >>
    \/ \E t \in WriteThreads : PW_Break(t) /\ UNCHANGED << shvars, wfvars, itvars, acvars, apvars, pcvars, exvars, rdvars, scvars, xpvars >>
    \/ \E t \in WriteThreads : PW_Acquire(t) /\ UNCHANGED << shvars, wfvars, itvars, acvars, apvars, pcvars, exvars, rdvars, scvars, xpvars >>
    \/ \E t \in WriteThreads : PW_WriteTable(t) /\ UNCHANGED << shvars, wfvars, itvars, acvars, apvars, pcvars, exvars, rdvars, scvars, xpvars >>
    \/ \E t \in WriteThreads : PW_WriteRaises(t) /\ UNCHANGED << shvars, wfvars, itvars, acvars, apvars, pcvars, exvars, rdvars, scvars, xpvars >>
    \/ \E t \in WriteThreads : PW_Release(t) /\ UNCHANGED << shvars, wfvars, itvars, acvars, apvars, pcvars, exvars, rdvars, scvars, xpvars >>

SpecWriter == InitWriter /\ [][NextWriter]_vars

\* phase_creator alone, on the phase list load_config prepared (the baseline phase)
InitPhase ==
    /\ ShufflerInit(1, {})
    /\ WorkflowInit
    /\ IteratorIdle
    /\ StatsIdle
    /\ ApplyIdle
    /\ \E baseline \in SeqsUpTo(BaseTasks, 1) :
         \E task_list \in SeqsUpTo(BaseTasks \cup DepTasks, MaxTasks) :
           PhaseInit(baseline, task_list)
    /\ ExecIdle /\ ReaderIdle /\ ShareIdle /\ ExportIdle /\ PWIdle

NextPhase == PhaseCreatorStep /\ UNCHANGED << shvars, wfvars, itvars, acvars, apvars, exvars, rdvars, scvars, xpvars, pwvars >>

SpecPhase == InitPhase /\ [][NextPhase]_vars

\* the add_feature / add_preprocess calls made before apply
Decls(n) == { [api |-> a, operators |-> c] : a \in {"FE", "PP"}, c \in Chains(n) }

DeclaredOps(ds) == SumSeq([k \in 1 .. Len(ds) |-> Len(ds[k].operators)])

ExecDeclared == { ds \in SeqsUpTo(Decls(MaxExecOps), 2) : DeclaredOps(ds) <= MaxExecOps }

\* apply(dataset): update_stats over the phases load_config built
InitExec ==
    /\ ShufflerInit(1, {})
    /\ WorkflowInit
    /\ IteratorIdle
    /\ StatsIdle
    /\ ApplyIdle
    /\ PhaseIdle
    /\ ReaderIdle /\ ShareIdle /\ ExportIdle /\ PWIdle
    /\ \E ds \in ExecDeclared : \E n \in 1 .. MaxExecChunks : \E truth \in Truthiness :
         \E shuffle \in BOOLEAN : \E pre \in BOOLEAN :
           \* operators built with preprocessing=False are handed to add_feature
           /\ pre \/ \A k \in 1 .. Len(ds) : ds[k].api = "FE"
           /\ ExecInit(LoadConfigOf(DeclareAll(NewListConfig, ds), << >>, << >>, {}, {}, {}),
                       n, truth, shuffle, pre)

NextExec ==
    \/ \E add_raises \in BOOLEAN :
         ExecChunk(add_raises) /\ UNCHANGED << shvars, wfvars, itvars, acvars, apvars, pcvars, rdvars, scvars, xpvars, pwvars >>
    \/ ExecFinish /\ UNCHANGED << shvars, wfvars, itvars, acvars, apvars, pcvars, rdvars, scvars, xpvars, pwvars >>
    \/ ExecClose /\ UNCHANGED << shvars, wfvars, itvars, acvars, apvars, pcvars, rdvars, scvars, xpvars, pwvars >>

SpecExec == InitExec /\ [][NextExec]_vars

\* the free device memory a parquet reader may be given
PqFreeMems == 2 .. MaxFreeMem

\* a parquet file of equal row groups, read to its end
InitReader ==
    /\ ShufflerInit(1, {})
    /\ WorkflowInit
    /\ IteratorIdle
    /\ StatsIdle
    /\ ApplyIdle
    /\ PhaseIdle
    /\ ExecIdle
    /\ ShareIdle /\ ExportIdle /\ PWIdle
    /\ \E num_rows \in 1 .. MaxPqRows :
         \E num_row_groups \in { g \in 1 .. num_rows : num_rows % g = 0 } :
           \E row_size \in {1, 2} : \E kw_batch \in {0, 2} :
             \E kw_rg \in {"None", "True", "False"} : \E free_mem \in PqFreeMems :
               ReaderInit(PQInitializeReader(num_rows, num_row_groups, row_size, kw_batch,
                                             kw_rg, free_mem))

NextReader ==
    PQReadFileBatch /\ UNCHANGED << shvars, wfvars, itvars, acvars, apvars, pcvars, exvars, scvars, xpvars, pwvars >>

SpecReader == InitReader /\ [][NextReader]_vars

\* two instances of one statistics class, constructed, fed, finalized and cleared
InitShare ==
    /\ ShufflerInit(1, {})
    /\ WorkflowInit
    /\ IteratorIdle
    /\ StatsIdle
    /\ ApplyIdle
    /\ PhaseIdle /\ ExecIdle /\ ReaderIdle /\ ExportIdle /\ PWIdle
    /\ \E kind \in StatIds : ShareInit(kind)

NextShare ==
    \/ \E i \in Instances : ShareConstruct(i) /\ UNCHANGED << shvars, wfvars, itvars, acvars, apvars, pcvars, exvars, rdvars, xpvars, pwvars >>
    \/ \E i \in Instances : \E chunk \in MomentChunks : ShareApplyOp(i, chunk) /\ UNCHANGED << shvars, wfvars, itvars, acvars, apvars, pcvars, exvars, rdvars, xpvars, pwvars >>
    \/ \E i \in Instances : ShareReadFin(i) /\ UNCHANGED << shvars, wfvars, itvars, acvars, apvars, pcvars, exvars, rdvars, xpvars, pwvars >>
    \/ \E i \in Instances : ShareClear(i) /\ UNCHANGED << shvars, wfvars, itvars, acvars, apvars, pcvars, exvars, rdvars, xpvars, pwvars >>

SpecShare == InitShare /\ [][NextShare]_vars

ContBases == { << Col("x") >>, << Col("x"), Col("z") >> }

NamesOf(base) == { base[k].name : k \in 1 .. Len(base) }

InitApply ==
    /\ ShufflerInit(1, {})
    /\ WorkflowInit
    /\ IteratorIdle
    /\ StatsIdle
    /\ PhaseIdle /\ ExecIdle /\ ReaderIdle /\ ShareIdle /\ ExportIdle /\ PWIdle
    /\ \E base \in ContBases : \E rows \in 0 .. 1 :
         \E stds \in {EmptyDict} \cup [NamesOf(base) -> {0, 1}] :
           \E medians \in {EmptyDict} \cup [NamesOf(base) -> {0}] :
             ApplyInit(base, rows, stds, medians)

NextApply ==
    \E op \in ApplyOps : \E truth \in Truthiness :
        TransformApplyOp(op, truth) /\ UNCHANGED << shvars, wfvars, itvars, acvars, pcvars, exvars, rdvars, scvars, xpvars, pwvars >>

SpecApply == InitApply /\ [][NextApply]_vars

InitIter ==
    /\ ShufflerInit(1, {})
    /\ WorkflowInit
    /\ StatsIdle
    /\ ApplyIdle
    /\ PhaseIdle /\ ExecIdle /\ ReaderIdle /\ ShareIdle /\ ExportIdle /\ PWIdle
    /\ \E n \in 1 .. MaxPaths : \E ps \in [1 .. n -> Sources] :
         \E kw \in {0, 1, MaxFileRows - 1} : IteratorInit(ps, kw)

NextIter ==
    \/ DsIter /\ UNCHANGED << shvars, wfvars, acvars, apvars, pcvars, exvars, rdvars, scvars, xpvars, pwvars >>
    \/ DsNextOpenFails /\ UNCHANGED << shvars, wfvars, acvars, apvars, pcvars, exvars, rdvars, scvars, xpvars, pwvars >>
    \/ DsNext /\ UNCHANGED << shvars, wfvars, acvars, apvars, pcvars, exvars, rdvars, scvars, xpvars, pwvars >>

SpecIter == InitIter /\ [][NextIter]_vars

InitStats ==
    /\ ShufflerInit(1, {})
    /\ WorkflowInit
    /\ IteratorIdle
    /\ ApplyIdle
    /\ PhaseIdle /\ ExecIdle /\ ReaderIdle /\ ShareIdle /\ ExportIdle /\ PWIdle
    /\ \E cls \in StatIds :
         \E f \in (IF cls = "Median" THEN Fills ELSE {NoFill}) : StatsInit(cls, NoRuns, f)

NextStats ==
    \/ \E chunk \in ChunkSet : MinMaxApply(chunk) /\ UNCHANGED << shvars, wfvars, itvars, apvars, pcvars, exvars, rdvars, scvars, xpvars, pwvars >>
    \/ MinMaxFin /\ UNCHANGED << shvars, wfvars, itvars, apvars, pcvars, exvars, rdvars, scvars, xpvars, pwvars >>
    \/ \E chunk \in MomentChunks : MomentsApply(chunk) /\ UNCHANGED << shvars, wfvars, itvars, apvars, pcvars, exvars, rdvars, scvars, xpvars, pwvars >>
    \/ MomentsFin /\ UNCHANGED << shvars, wfvars, itvars, apvars, pcvars, exvars, rdvars, scvars, xpvars, pwvars >>
    \/ \E chunk \in ChunkSet : MedianApply(chunk) /\ UNCHANGED << shvars, wfvars, itvars, apvars, pcvars, exvars, rdvars, scvars, xpvars, pwvars >>
    \/ MedianFin /\ UNCHANGED << shvars, wfvars, itvars, apvars, pcvars, exvars, rdvars, scvars, xpvars, pwvars >>
    \/ \E chunk \in ChunkSet : EncoderApply(chunk) /\ UNCHANGED << shvars, wfvars, itvars, apvars, pcvars, exvars, rdvars, scvars, xpvars, pwvars >>
    \/ EncoderFin /\ UNCHANGED << shvars, wfvars, itvars, apvars, pcvars, exvars, rdvars, scvars, xpvars, pwvars >>

SpecStats == InitStats /\ [][NextStats]_vars

InitMerge ==
    /\ ShufflerInit(1, {})
    /\ WorkflowInit
    /\ IteratorIdle
    /\ ApplyIdle
    /\ PhaseIdle /\ ExecIdle /\ ReaderIdle /\ ShareIdle /\ ExportIdle /\ PWIdle
    /\ \E A \in MomentChunks : \E B \in MomentChunks : \E C \in MomentChunks :
         StatsInit("Moments",
                   [r \in RunNames |->
                       [todo |-> IF r = "A|B|C" THEN << A, B, C >>
                                 ELSE IF r = "A|BC" THEN << A, B \o C >>
                                 ELSE << A \o B, C >>,
                        st |-> NewMoments]],
                   NoFill)

NextMerge == \E r \in RunNames : MergeIngest(r) /\ UNCHANGED << shvars, wfvars, itvars, apvars, pcvars, exvars, rdvars, scvars, xpvars, pwvars >>

SpecMerge == InitMerge /\ [][NextMerge]_vars

\* Scheduling of the threads: the interpreter keeps running every thread that
\* can take a step (the producer inside a call, each started writer thread).
FairSpec ==
    /\ Spec
    /\ WF_shvars(ProducerStep)
    /\ \A t \in 1 .. MaxShards : WF_shvars(t \in ThreadIds /\ WriterStep(t))

(* ---------------------------------------------------------------------- *)
(* Shuffler properties                                                     *)
(* ---------------------------------------------------------------------- *)
EnqPieces == UNION { { << i, k >> : k \in 1 .. Len(enq[i]) } : i \in DOMAIN enq }

PieceAt(ik) == enq[ik[1]][ik[2]]

ProducerBetweenCalls == prod_pc \in {"idle", "join", "closed"}

\* C1: between add_data calls, the pieces appended to the buckets are pairwise
\* disjoint, together contain every row of every chunk received, and the total
\* number of rows enqueued equals the total number of rows of the chunks received.
C1_EveryRowEnqueued ==
    ProducerBetweenCalls =>
        /\ \A a, b \in EnqPieces : a # b => PieceSet(PieceAt(a)) \cap PieceSet(PieceAt(b)) = {}
        /\ \A c \in 1 .. Len(chunks) :
              { <<c, r>> : r \in 0 .. (chunks[c] - 1) } \subseteq
                  UNION { PieceSet(PieceAt(a)) : a \in EnqPieces }
        /\ SumOver(enq, DOMAIN enq) = SumSeq(chunks)

SeqToSet(s) == { s[k] : k \in 1 .. Len(s) }

\* C5: after close_writers returned, the pieces written to each shard file are
\* exactly the pieces appended to the shard's bucket (no pending piece is dropped).
C5_WrittenEqualsEnqueued ==
    prod_pc = "closed" =>
        \A i \in DOMAIN files :
            /\ SeqToSet(files[i].tables) = SeqToSet(enq[i])
            /\ Len(files[i].tables) = Len(enq[i])
            /\ SumRows(files[i].tables) = SumRows(enq[i])

AllWritersExited == \A t \in ThreadIds : threads[t].pc = "done"

\* C6: once close_writers has raised the stop flag and waits for the started
\* writer threads, every one of them eventually exits and close_writers returns.
C6_WritersExit ==
    (cont_saving = FALSE /\ prod_pc = "join") ~> (prod_pc = "closed" /\ AllWritersExited)

ThreadsOf(i) == { t \in ThreadIds : threads[t].idx = i }

\* C7: exactly one writer thread is started per shard index (none before the
\* first add_data), and the file of shard i is opened and written only by the
\* thread started for index i.
C7_OneWriterPerShard ==
    \A i \in DOMAIN files :
        /\ Cardinality(ThreadsOf(i)) = IF Len(chunks) > 0 THEN 1 ELSE 0
        /\ SeqToSet(files[i].openers) \subseteq ThreadsOf(i)
        /\ files[i].writtenby \subseteq ThreadsOf(i)
        /\ Len(files[i].openers) <= 1

C7_Witness ==
    /\ Len(chunks) >= 2
    /\ num_out_files >= 2
    /\ \A i \in DOMAIN files : files[i].tables # <<>>

\* C8: a shard whose bucket has never received a piece has no file.
C8_NoFileBeforePiece ==
    \A i \in DOMAIN files : files[i].openers # <<>> => enq[i] # <<>>

C8_Witness ==
    /\ threads # <<>>
    /\ \E i, j \in DOMAIN files :
          /\ files[i].openers # <<>>
          /\ enq[j] = <<>>
          /\ threads[j + 1].pc = "sleep"

\* C9: after close_writers, every shard file that was produced contains at
\* least one row.
C9_NoEmptyFile ==
    prod_pc = "closed" =>
        \A i \in DOMAIN files : files[i].openers # <<>> => SumRows(files[i].tables) >= 1

IsPrefix(s, t) == Len(s) <= Len(t) /\ \A k \in 1 .. Len(s) : s[k] = t[k]

\* C10: the writer of a shard writes the pieces in the order in which the
\* producer appended them to the shard's bucket (FIFO).
C10_Fifo ==
    \A i \in DOMAIN files : IsPrefix(files[i].tables, enq[i])

(* ---------------------------------------------------------------------- *)
(* Scheduler properties                                                    *)
(* ---------------------------------------------------------------------- *)
PhasePos == UNION { { << i, k >> : k \in 1 .. Len(phases[i]) } : i \in 1 .. Len(phases) }

TaskAt(ik) == phases[ik[1]][ik[2]]

SamePair(a, b) == a.op = b.op /\ a.cols = b.cols

\* C2: after load_config no two tasks of the master task list, and no two tasks
\* across all phases, have the same operator identifier and the same column-group.
C2_NoDuplicateTask ==
    wf_pc = "loaded" =>
        /\ \A a, b \in 1 .. Len(master_task_list) :
              a # b => ~SamePair(master_task_list[a], master_task_list[b])
        /\ \A a, b \in PhasePos : a # b => ~SamePair(TaskAt(a), TaskAt(b))

ColumnDeps(task) == { task.deps[k] : k \in 1 .. Len(task.deps) } \ {"base"}

RECURSIVE RowsOf(_, _)
RowsOf(ys, i) ==
    IF ys = << >> THEN 0
    ELSE (IF Head(ys).path = i THEN Head(ys).rows ELSE 0) + RowsOf(Tail(ys), i)

\* C12: once an iteration of the GPUDatasetIterator ran to completion, every later
\* iteration (restarted by __iter__, also in the middle of an iteration) returns the
\* same sequence of chunk row-counts: what it returned so far is a prefix of the first
\* complete sequence, and equals it when the iteration is exhausted.
C12_RestartReproduces ==
    first_done =>
        /\ IsPrefix(yielded, first_run)
        /\ (it_raised = "StopIteration" => yielded = first_run)

\* C13: the chunks come source by source in declared order; a source with zero rows
\* does not end the sequence with an error; StopIteration is raised only when every
\* source has been read completely.
C13_DeclaredOrder ==
    /\ \A k \in 1 .. (Len(yielded) - 1) : yielded[k].path <= yielded[k + 1].path
    /\ (failed_path # 0 => paths[failed_path].num_rows > 0)
    /\ (it_raised = "StopIteration" =>
            \A i \in 1 .. Len(paths) : RowsOf(yielded, i) = paths[i].num_rows)

\* C14: with no batch size supplied, a reader of a source with at least one row gets
\* batch_size = floor(free_mem * fraction / row_size) clamped to [1, num_rows]; in
\* particular constructing the reader does not raise.
C14_DerivedBatchSize ==
    kw_batch_size = 0 =>
        /\ (failed_path # 0 => paths[failed_path].num_rows = 0)
        /\ (~itr_is_none /\ itr.file_size >= 1 =>
                LET src == paths[itr.file_path]
                    rows == (itr.free_mem * FracNum) \div (FracDen * RowSize(src))
                IN  itr.batch_size = Min(Max(rows, 1), src.num_rows))

(* ---------------------------------------------------------------------- *)
(* Statistics operator properties                                          *)
(* ---------------------------------------------------------------------- *)
\* the statistics the operators publish (stats_collected)
Published == << minmax.mins, minmax.maxs, minmax.batch_mins, minmax.batch_maxs,
                moments.means, moments.stds, moments.varis, moments.counts,
                median.medians, encoder.encoders, encoder.categories >>

\* C11: a read_fin call that directly follows another read_fin call (no apply_op in
\* between) leaves every published statistic of the accumulator as the first call
\* left it.
C11_FinalizeIdempotent ==
    [][(last_call = "read_fin" /\ last_call' = "read_fin") => Published' = Published]_vars

\* read_fin was called twice in a row on a Median that recorded three per-chunk
\* values, not all the same
C11_Witness ==
    /\ acc = "Median"
    /\ fin_streak = 2
    /\ Len(recorded) = 3
    /\ recorded[1] # recorded[2]
    /\ median.medians[GetColumns[1]] = 1

\* C18: after read_fin, mins[col] is the least of the recorded per-chunk minima,
\* maxs[col] the greatest of the recorded per-chunk maxima, and mins[col] <= maxs[col].
C18_MinMaxGlobal ==
    (acc = "MinMax" /\ last_call = "read_fin" /\ recorded # << >>) =>
        LET lo == minmax.mins[GetColumns[1]]
            hi == minmax.maxs[GetColumns[1]]
        IN  /\ \A k \in 1 .. Len(recorded) : lo <= recorded[k].lo /\ recorded[k].hi <= hi
            /\ \E k \in 1 .. Len(recorded) : lo = recorded[k].lo
            /\ \E k \in 1 .. Len(recorded) : hi = recorded[k].hi
            /\ lo <= hi

\* three chunks with the pairs (1,1), (1,2), (0,0) were finalized to min 0, max 2
C18_Witness ==
    /\ acc = "MinMax"
    /\ last_call = "read_fin"
    /\ recorded = << [lo |-> 1, hi |-> 1], [lo |-> 1, hi |-> 2], [lo |-> 0, hi |-> 0] >>
    /\ minmax.mins[GetColumns[1]] = 0
    /\ minmax.maxs[GetColumns[1]] = 2

\* C19: after read_fin, medians[col] is the element with index floor(k / 2) in the
\* ascending order of the k recorded per-chunk medians, whatever the order in which
\* the chunks were ingested: at most floor(k / 2) recorded values lie below it and
\* more than floor(k / 2) do not exceed it.
C19_MedianOfMedians ==
    (acc = "Median" /\ last_call = "read_fin" /\ recorded # << >>) =>
        LET v == median.medians[GetColumns[1]]
            k == Len(recorded)
            below == Cardinality({ j \in 1 .. k : recorded[j] < v })
            upto == Cardinality({ j \in 1 .. k : recorded[j] <= v })
        IN  /\ \E j \in 1 .. k : recorded[j] = v
            /\ below <= k \div 2
            /\ k \div 2 < upto

\* the per-chunk medians 2, 0, 1 were recorded in that order and finalized to 1
C19_Witness ==
    /\ acc = "Median"
    /\ last_call = "read_fin"
    /\ recorded = << 2, 0, 1 >>
    /\ median.medians[GetColumns[1]] = 1

\* two floats (numbers, not NaN) agree within a tolerance of 1/1000
Close(a, b) == 1000 * Abs(a.n * b.d - b.n * a.d) <= a.d * b.d

\* C20: once the rows A, B, C went into Moments as A, B, C, as A, B+C and as A+B, C,
\* the three objects agree on the count, the mean and (within tolerance) the variance
\* (stated for chunks of at least two rows, whose variance is a number).
C20_MergeAssociative ==
    (/\ \A r \in RunNames : runs[r].todo = << >>
     /\ \A r \in RunNames : ~IsNaN(runs[r].st.varis[GetColumns[1]])) =>
        \A r, q \in RunNames :
            LET col == GetColumns[1]
            IN  /\ runs[r].st.counts[col] = runs[q].st.counts[col]
                /\ Close(runs[r].st.means[col], runs[q].st.means[col])
                /\ Close(runs[r].st.varis[col], runs[q].st.varis[col])

(* ---------------------------------------------------------------------- *)
(* Workflow persistence and configuration errors                           *)
(* ---------------------------------------------------------------------- *)
\* C15: save_stats followed by load_stats reconstructs the full task list: every task
\* load_config placed in a phase is in the persisted "tasks" list and is in the task
\* list after load_stats, with the same operator, column-group, dependencies and
\* parents.
C15_SaveLoadRoundTrip ==
    /\ saved_set =>
          \A p \in PhasePos : InSeq(SavedTasks(<< TaskAt(p) >>)[1], saved_tasks)
    /\ wf_pc = "restored" =>
          \A p \in PhasePos : InSeq(TaskAt(p), master_task_list)

\* C16: a declaration naming a column-group the configuration does not declare raises
\* when the operator is added; no data pass runs after such a declaration went through.
C16_UndeclaredFailsFast == wf_pc = "applied" => ~dropped

\* C17: applying Normalize with empty 'stds' or FillMissing with empty 'medians' to a
\* chunk is a no-op: the chunk keeps its columns, the column context is unchanged and
\* nothing is raised.
C17_MissingStatNoOp ==
    (ap_last \in {"Normalize", "FillMissing"} /\ IsEmptyDict(wf_stats[StatKey(ap_last)])) =>
        /\ gdf = gdf_before
        /\ columns_ctx = ctx_before
        /\ ap_raised = None

CeilDiv(a, b) == (a + b - 1) \div b

\* C22: add_data slices a chunk of R rows for N shards into contiguous pieces of
\* ceil(R/N) rows (the trailing ones shorter or empty), for every R >= 1 and N >= 1,
\* and computing the slice size never fails.
C22_CeilSlices ==
    /\ chunks # << >> =>
          /\ raised # "ZeroDivisionError"
          /\ slice_size = CeilDiv(gdf_rows, num_out_files)
    /\ \A i \in DOMAIN enq : \A k \in 1 .. Len(enq[i]) :
          LET p == enq[i][k]
              sz == CeilDiv(chunks[p.c], num_out_files)
          IN  /\ p.lo % sz = 0
              /\ p.hi = Min(p.lo + sz, chunks[p.c])

\* number of pieces of chunk c appended to the bucket of shard i
PiecesOf(i, c) == Cardinality({ k \in 1 .. Len(enq[i]) : enq[i][k].c = c })

\* add_data returned for chunk c (it is not the chunk being distributed)
Distributed(c) == c < Len(chunks) \/ ProducerBetweenCalls

LockDiscipline ==
    /\ \A i \in DOMAIN locks_bucket :
          /\ locks_bucket[i] = -1 => (prod_pc = "append" /\ b_idxs[x] = i)
          /\ locks_bucket[i] > 0 =>
                /\ locks_bucket[i] \in ThreadIds
                /\ threads[locks_bucket[i]].pc = "pop"
                /\ threads[locks_bucket[i]].idx = i
    /\ prod_pc = "append" => locks_bucket[b_idxs[x]] = -1
    /\ \A t \in ThreadIds : threads[t].pc = "pop" => locks_bucket[threads[t].idx] = t

\* a step that appends to or pops from a bucket is taken by the holder of the
\* bucket's lock, and releases it
BucketChangeUnderLock ==
    \A i \in (DOMAIN buckets) \cap (DOMAIN buckets') :
        Len(buckets'[i]) # Len(buckets[i]) =>
            /\ Len(buckets'[i]) \in {Len(buckets[i]) + 1, Len(buckets[i]) - 1}
            /\ locks_bucket[i] # 0
            /\ locks_bucket'[i] = 0
            /\ \A j \in (DOMAIN buckets) \ {i} : buckets'[j] = buckets[j]

\* a step that opens a shard file or writes a piece to it is taken by a thread that
\* holds no lock
IoWithoutLock ==
    \A i \in DOMAIN files :
        files'[i] # files[i] =>
            \A t \in ThreadIds :
                (threads'[t] # threads[t]) =>
                    \A j \in DOMAIN locks_bucket : locks_bucket[j] # t

\* C24: a bucket is appended to and popped from only while its shard's lock is held,
\* each acquisition covers exactly one append or one pop, and no thread holds a shard
\* lock while it opens the shard file or writes a piece to it.
C24_LockScope == [][LockDiscipline' /\ BucketChangeUnderLock /\ IoWithoutLock]_vars

\* the producer holds one shard's lock for an append while a writer holds the other
\* shard's lock for a pop
C24_Witness ==
    /\ prod_pc = "append"
    /\ \E t \in ThreadIds :
          /\ threads[t].pc = "pop"
          /\ locks_bucket[threads[t].idx] = t
          /\ locks_bucket[b_idxs[x]] = -1
          /\ b_idxs[x] # threads[t].idx

\* C25: a writer thread never pops from an empty bucket: whenever it stands at the
\* locked pop its bucket holds at least one piece, and no writer thread ends with an
\* IndexError, in every interleaving with add_data and close_writers.
C25_PopNeverEmpty ==
    \A t \in ThreadIds :
        /\ threads[t].pc # "crashed"
        /\ threads[t].pc \in {"acquire", "pop"} => Len(buckets[threads[t].idx]) > 0

\* a writer stands at the pop after close_writers raised the stop flag, with the
\* producer waiting in join
C25_Witness ==
    /\ prod_pc = "join"
    /\ ~cont_saving
    /\ \E t \in ThreadIds : threads[t].pc = "pop" /\ Len(buckets[threads[t].idx]) = 1

(* ---------------------------------------------------------------------- *)
(* phase_creator: placement rule, unresolved dependencies                  *)
(* ---------------------------------------------------------------------- *)
\* the operators whose tasks sit in phases 1 .. i of phs
ProducedUpTo(phs, i) ==
    { phs[j][m].op : << j, m >> \in
        UNION { { << j, m >> : m \in 1 .. Len(phs[j]) } : j \in 1 .. Min(i, Len(phs)) } }

NamedDeps(task) == SeqToSet(task.deps) \ {"base"}

\* phase i of phs qualifies for task: its dependencies are produced in phases 1 .. i,
\* its parents in phases 1 .. i - 1
Qualifies(phs, task, i) ==
    /\ NamedDeps(task) \subseteq ProducedUpTo(phs, i)
    /\ SeqToSet(task.parents) \subseteq ProducedUpTo(phs, i - 1)

\* the same with the dependencies, too, required in phases 1 .. i - 1
QualifiesStrictly(phs, task, i) ==
    /\ NamedDeps(task) \subseteq ProducedUpTo(phs, i - 1)
    /\ SeqToSet(task.parents) \subseteq ProducedUpTo(phs, i - 1)

\* placed where the rule says: the lowest qualifying phase, else a new trailing one
\* that holds the task alone
PlacedByRule(h, Q) ==
    IF Q # {}
      THEN /\ ~h.appended
           /\ h.idx \in Q
           /\ \A i \in Q : h.idx <= i
           /\ h.after[h.idx] = Append(h.before[h.idx], h.task)
      ELSE /\ h.appended
           /\ h.idx = Len(h.before) + 1
           /\ h.after[h.idx] = << h.task >>

NeverMoved(h) ==
    /\ Len(h.after) <= Len(pc_phases)
    /\ \A i \in 1 .. Len(h.after) : IsPrefix(h.after[i], pc_phases[i])
    /\ \A i \in 1 .. Len(h.before) : i # h.idx => h.after[i] = h.before[i]

Unresolved(h) ==
    ~(/\ NamedDeps(h.task) \subseteq ProducedUpTo(h.before, Len(h.before))
      /\ SeqToSet(h.task.parents) \subseteq ProducedUpTo(h.before, Len(h.before)))

\* C29: a task that names a column dependency or a parent operator no task placed
\* before it produces makes the schedule build fail, and is placed in no phase.
C29_UnresolvedFails ==
    \A k \in 1 .. Len(pc_hist) :
        Unresolved(pc_hist[k]) =>
            /\ pc_raised # None
            /\ \A i \in 1 .. Len(pc_hist[k].after) :
                  ~InSeq(pc_hist[k].task, pc_hist[k].after[i])

(* ---------------------------------------------------------------------- *)
(* build_tasks and sort_task_types                                         *)
(* ---------------------------------------------------------------------- *)
\* the operators with required statistics and the statistic operator each requires
RequiredStat == { << "Normalize", "Moments" >>, << "FillMissing", "Median" >>,
                  << "Categorify", "Encoder" >> }

\* the tasks build_tasks compiled, FE before PP
Compiled == task_sets["FE"] \o task_sets["PP"]

IsStatTask(t, stat, g) == t.op = stat /\ t.cols = g /\ t.parents = << >>

\* C27: for every operator with required statistics scheduled for column-group g, a
\* task of the required statistic on g is compiled ahead of the operator's task and is
\* in the plan; the statistic task directly precedes the operator's task unless a task
\* of that statistic on g was scheduled already.
C27_RequiredStatsInjected ==
    wf_pc # "config" =>
        \A pn \in {"FE", "PP"} : \A k \in 1 .. Len(task_sets[pn]) : \A rs \in RequiredStat :
            LET t == task_sets[pn][k]
                off == IF pn = "FE" THEN 0 ELSE Len(task_sets["FE"])
            IN  t.op = rs[1] =>
                  /\ \E j \in 1 .. (off + k - 1) : IsStatTask(Compiled[j], rs[2], t.cols)
                  /\ \E p \in PhasePos : IsStatTask(TaskAt(p), rs[2], t.cols)
                  /\ \/ /\ k > 1
                        /\ IsStatTask(task_sets[pn][k - 1], rs[2], t.cols)
                        /\ task_sets[pn][k - 1].deps = t.deps
                     \/ /\ pn = "PP"
                        /\ \E j \in 1 .. Len(task_sets["FE"]) :
                              IsStatTask(task_sets["FE"][j], rs[2], t.cols)

\* Normalize scheduled for the categorical group behind Categorify, each with its
\* statistic on that group
C27_Witness ==
    /\ wf_pc = "loaded"
    /\ \E p, q, r \in PhasePos :
          /\ TaskAt(p).op = "Normalize" /\ TaskAt(p).cols = CAT
          /\ IsStatTask(TaskAt(q), "Moments", CAT)
          /\ IsStatTask(TaskAt(r), "Encoder", CAT)

Count(e, seq) == Cardinality({ k \in 1 .. Len(seq) : seq[k] = e })

PhaseCount(e) == Cardinality({ p \in PhasePos : TaskAt(p) = e })

IsBaseTask(t) == t.deps = << "base" >> /\ t.parents = << >>

\* C28: after load_config every compiled task is in exactly one phase: the phases hold
\* as many copies of each task as build_tasks compiled and nothing else, and every base
\* task (dependency 'base' only, no parents) is in phase 0.
C28_EveryTaskInOnePhase ==
    wf_pc # "config" =>
        /\ Cardinality(PhasePos) = Len(Compiled)
        /\ \A k \in 1 .. Len(Compiled) : PhaseCount(Compiled[k]) = Count(Compiled[k], Compiled)
        /\ \A p \in PhasePos : IsBaseTask(TaskAt(p)) => p[1] = 1

\* a plan of several phases in which sort_task_types left a base task among the
\* leftovers
C28_Witness ==
    /\ wf_pc = "loaded"
    /\ Len(phases) >= 2
    /\ Len(Compiled) >= 3
    /\ \E k \in 1 .. Len(master_task_list) : IsBaseTask(master_task_list[k])

(* ---------------------------------------------------------------------- *)
(* exec_phase                                                              *)
(* ---------------------------------------------------------------------- *)
\* the statistics phase i owns: << stat operator, columns_ctx entry >> per statistic
\* task of the phase and name of its target_cols
StatTargets(i) ==
    UNION { { << ex_phases[i][p].op, << ex_phases[i][p].cols, ex_phases[i][p].deps[d] >> >> :
                d \in 1 .. Len(ex_phases[i][p].deps) } :
            p \in { q \in 1 .. Len(ex_phases[i]) : ex_phases[i][q].op \in StatIds } }

Ingests(log, pass, chunk, key) ==
    Cardinality({ k \in 1 .. Len(log) :
                    log[k] = [pass |-> pass, chunk |-> chunk, key |-> key] })

KeyLog(log, key) == SelectSeq(log, LAMBDA r : r.key = key)

\* the tasks of phase i a chunk goes through: all of them, or the transforms only
PhaseSteps(i, all) ==
    LET idx == SelectSeq([p \in 1 .. Len(ex_phases[i]) |-> p],
                         LAMBDA p : all \/ ex_phases[i][p].op \notin StatIds)
    IN  [j \in 1 .. Len(idx) |-> [phase |-> i, pos |-> idx[j]]]

RECURSIVE ExpectedTrace(_, _)
ExpectedTrace(i, k) ==
    IF i >= k THEN PhaseSteps(k, TRUE)
    ELSE PhaseSteps(i, FALSE) \o ExpectedTrace(i + 1, k)

\* chunks of pass k processed so far
ChunksDone(k) == IF k < ex_pass THEN ex_n ELSE ex_next - 1

PassesBegun == 1 .. Min(ex_pass, Len(ex_phases))

C30_TraceInOrder ==
    (ex_next > 1 /\ ex_pass <= Len(ex_phases)) => ex_trace = ExpectedTrace(1, ex_pass)

C30_IngestOnce ==
    \A k \in PassesBegun : \A sk \in StatTargets(k) : \A c \in 1 .. ChunksDone(k) :
        Ingests(ex_acc[sk[1]], k, c, sk[2]) = 1

C30_EarlierIdle ==
    \A k \in PassesBegun : \A j \in 1 .. (k - 1) : \A sk \in StatTargets(j) :
        \A c \in 1 .. ex_n : Ingests(ex_acc[sk[1]], k, c, sk[2]) = 0

C30_PublishedFrozen ==
    \A j \in 1 .. Len(ex_pub) : \A sk \in StatTargets(j) :
        KeyLog(ex_stats[sk[1]], sk[2]) = KeyLog(ex_pub[j][sk[1]], sk[2])

\* C30: in the pass for phase k every chunk goes through the transform operators of
\* phases 0..k-1 in phase order and then the tasks of phase k in task order; each
\* statistic of phase k ingests each chunk exactly once in that pass, the statistics of
\* phases before k ingest nothing in it, and what phase j published stays unchanged
\* during all later passes.
C30_PassOrderAndIngestOnce ==
    ex_raised = None =>
        /\ C30_TraceInOrder
        /\ C30_IngestOnce
        /\ C30_EarlierIdle
        /\ C30_PublishedFrozen

(* ---------------------------------------------------------------------- *)
(* apply with shuffle                                                      *)
(* ---------------------------------------------------------------------- *)
Handed(c) == Cardinality({ k \in 1 .. Len(ex_handed) : ex_handed[k].chunk = c })

\* chunks of the final pass whose processing returned
FinalDone ==
    IF ex_pass < Len(ex_phases) THEN 0
    ELSE IF ex_pass > Len(ex_phases) THEN ex_n
    ELSE ex_next - 1

EntriesKept == \A key \in DOMAIN ex_cols : ex_cols'[key] = ex_cols[key]

FinalListsOnce ==
    \A g \in DOMAIN ex_final : \A i, j \in 1 .. Len(ex_final[g]) :
        i # j => ex_final[g][i] # ex_final[g][j]

\* C32: an entry columns_ctx[group][sub-key], once written, is not changed by the
\* processing of further chunks or by the passes of later phases, and the final
\* context lists each operator identifier at most once per group however many chunks
\* are processed.
C32_ContextWrittenOnce == [][EntriesKept /\ (FinalListsOnce => FinalListsOnce')]_vars

(* ---------------------------------------------------------------------- *)
(* GPUFileIterator                                                         *)
(* ---------------------------------------------------------------------- *)
\* the chunks the current file iterator returned so far
ChunksOfItr == SelectSeq(yielded, LAMBDA y : y.path = itr.file_path)

\* C33: a file iterator over a source of R >= 1 rows with batch size b >= 1 reads its
\* chunks at the offsets 0, b, 2b, ..., each of 1 to b rows, without overlap or gap;
\* when the source is exhausted it has returned ceil(R/b) chunks, which is its len(),
\* and their row counts sum to R.
C33_CeilChunks ==
    (~itr_is_none /\ itr.file_size >= 1 /\ itr.batch_size >= 1) =>
        LET cs == ChunksOfItr
            b == itr.batch_size
            R == itr.file_size
        IN  /\ Len(cs) = itr.count
            /\ \A k \in 1 .. Len(cs) :
                  /\ cs[k].rows >= 1 /\ cs[k].rows <= b
                  /\ cs[k].rows = Min(b, R - (k - 1) * b)
            /\ itr.rows_processed = SumSeq([k \in 1 .. Len(cs) |-> cs[k].rows])
            /\ itr.rows_processed <= R
            /\ itr.rows_processed = R =>
                  /\ Len(cs) = CeilDiv(R, b)
                  /\ Len(cs) = FileIteratorLen(itr)

\* an exhausted source read in several chunks, the last one shorter than the batch
C33_Witness ==
    /\ ~itr_is_none
    /\ itr.rows_processed = itr.file_size
    /\ itr.count >= 2
    /\ itr.file_size % itr.batch_size # 0
    /\ Len(ChunksOfItr) = itr.count

(* ---------------------------------------------------------------------- *)
(* PQFileReader and row groups                                             *)
(* ---------------------------------------------------------------------- *)
\* the row groups fit the memory budget and no batch size was imposed
RowGroupsFit ==
    rd_reader.derived /\ rd_reader.rg_size <= rd_reader.gpu_memory_batch

\* C34: when the row groups of a parquet source fit the memory budget, every chunk the
\* iterator produces ends on a row-group boundary (each chunk is a whole number of row
\* groups).
C34_ChunksAlignToRowGroups ==
    RowGroupsFit =>
        \A k \in 1 .. Len(rd_bounds) : rd_bounds[k] % rd_reader.rg_size = 0

(* ---------------------------------------------------------------------- *)
(* Accumulators on chunks without values, with a fill, and their counts    *)
(* ---------------------------------------------------------------------- *)
\* an apply_op call of the accumulator cls is the step taken
Ingest(cls) == acc = cls /\ n_chunks' = n_chunks + 1

\* C35: MinMax ingest of a chunk in which the column has no non-missing value
\* completes normally and leaves the recorded per-chunk minimum and maximum lists
\* unchanged.
C35_AllMissingChunkSkipped ==
    [][(Ingest("MinMax") /\ DropNa(ingested') = << >>) =>
          /\ stat_raised' = None
          /\ minmax'.batch_mins = minmax.batch_mins
          /\ minmax'.batch_maxs = minmax.batch_maxs]_vars

\* the value the last apply_op call recorded
LastRecorded == recorded[Len(recorded)]

\* Median.batch_medians[col], empty before the column is first seen
MediansOf(st) ==
    IF GetColumns[1] \in DOMAIN st.batch_medians THEN st.batch_medians[GetColumns[1]]
    ELSE << >>

\* C36: a Median with a fixed fill value records exactly that value once per chunk,
\* whatever the chunk contains and for every fill value including 0; without a fill
\* value a chunk with fewer than 2 non-missing values records 0.0.
C36_FillRecordedVerbatim ==
    [][Ingest("Median") =>
          /\ Len(recorded') = Len(recorded) + 1
          /\ Len(MediansOf(median')) = Len(MediansOf(median)) + 1
          /\ fill # NoFill => recorded' = Append(recorded, fill[1])
          /\ (fill = NoFill /\ Len(DropNa(ingested')) < 2) =>
                 recorded' = Append(recorded, 0)]_vars

\* Moments.counts[col], 0 before the column is first seen
CountOf(st) == IF GetColumns[1] \in DOMAIN st.counts THEN st.counts[GetColumns[1]] ELSE 0

\* C37: after any sequence of chunks, Moments.counts[col] is the sum of the row
\* counts of the chunks ingested (each ingest adds the chunk's rows to the count),
\* and the count never decreases.
C37_CountIsRowsIngested ==
    [][acc = "Moments" =>
          /\ CountOf(moments') = rows_in'
          /\ Ingest("Moments") => CountOf(moments') = CountOf(moments) + Len(ingested')
          /\ CountOf(moments') >= CountOf(moments)]_vars

\* three chunks of different sizes ingested, then finalized
C37_Witness ==
    /\ acc = "Moments"
    /\ n_chunks = 3
    /\ last_call = "read_fin"
    /\ rows_in > 3
    /\ CountOf(moments) = rows_in

(* ---------------------------------------------------------------------- *)
(* Instances of one statistics class                                       *)
(* ---------------------------------------------------------------------- *)
\* the running and published values instance i reads
StateOf(i) == AttrsOf(i, sc_own, sc_inst, sc_class)

\* C38: accumulator state is private to its instance: a newly constructed MinMax,
\* Moments, Median or Encoder starts with empty state, and ingesting chunks into one
\* instance leaves the running and published values of every other instance of the
\* same kind unchanged, also when clear() has not been called on either.
C38_StatePrivateToInstance ==
    [][\A i \in Instances :
          /\ (sc_n' = sc_n + 1 /\ sc_last'.op = "init" /\ sc_last'.inst = i) =>
                 AttrsOf(i, sc_own', sc_inst', sc_class') = NewState(sc_kind)
          /\ (sc_n' = sc_n + 1 /\ sc_last'.op = "apply_op" /\ sc_last'.inst = i) =>
                 \A j \in sc_made \ {i} :
                    AttrsOf(j, sc_own', sc_inst', sc_class') = StateOf(j)]_vars

(* ---------------------------------------------------------------------- *)
(* phases_export                                                           *)
(* ---------------------------------------------------------------------- *)
\* the positions of the Export tasks of phase i
ExportsIn(i) == { k \in 1 .. Len(phases[i]) : phases[i][k].op = "Export" }

\* phase i holds a task of a transform operator other than Export
HoldsTransform(i) ==
    \E k \in 1 .. Len(phases[i]) : phases[i][k].op \notin StatIds \cup {"Export"}

\* C39: with export enabled, after load_config every non-final phase that holds a
\* transform operator task ends with exactly one Export task, and the final phase and
\* every phase that holds only statistic tasks hold no Export task.
C39_ExportEndsTransformPhases ==
    (wf_pc = "loaded" /\ export) =>
        \A i \in 1 .. Len(phases) :
            IF i < Len(phases) /\ HoldsTransform(i)
              THEN ExportsIn(i) = { Len(phases[i]) }
              ELSE ExportsIn(i) = {}

\* a plan whose first phase was given an Export task after two tasks and whose final
\* phase holds a transform operator
C39_Witness ==
    /\ wf_pc = "loaded"
    /\ export
    /\ Len(phases) >= 2
    /\ ExportsIn(1) = {3}
    /\ HoldsTransform(Len(phases))

(* ---------------------------------------------------------------------- *)
(* ParquetWriter._write_thread                                             *)
(* ---------------------------------------------------------------------- *)
\* the items a thread took and is still working on
InHand == { pw_item[t].id : t \in { u \in WriteThreads : pw_pc[u] \in {"try", "write", "release"} } }

\* C40: every item taken from the queue is marked done exactly once (never before the
\* thread is through with it, never twice), whether it is a data item, the sentinel or
\* a data item whose write raises; a data item for shard idx is written only while
\* write_locks[idx] is held by the writing thread; a thread leaves its loop only on the
\* sentinel or on an exception.
C40_DoneOnceWrittenUnderLock ==
    /\ \A k \in 1 .. MaxItems :
          pw_done[k] = (IF k \in pw_taken \ InHand THEN 1 ELSE 0)
    /\ \A w \in 1 .. Len(pw_written) : pw_written[w].holder = pw_written[w].by
    /\ \A t \in WriteThreads :
          /\ pw_pc[t] = "returned" => pw_item[t].kind = "eod"
          /\ pw_pc[t] = "raised" => pw_item[t].kind = "data" /\ pw_item[t].raises

\* both threads have left the loop, one on the sentinel and one on a write that raised,
\* after a data item was written
C40_Witness ==
    /\ \E t \in WriteThreads : pw_pc[t] = "returned"
    /\ \E t \in WriteThreads : pw_pc[t] = "raised"
    /\ pw_written # << >>
    /\ pw_taken = 1 .. MaxItems
    /\ \A k \in 1 .. MaxItems : pw_done[k] = 1

====
